---- MODULE Spec2Model ----
(***************************************************************************)
(* State-machine model of the Amazon price tracker's ingestion core:       *)
(*   - HeaderManager            (src/ingestion/header.py)                   *)
(*   - AmazonScraper            (src/ingestion/amazon_scraper.py)           *)
(*   - run_scraper.main         (src/ingestion/run_scraper.py)              *)
(*   - update_product           (src/storage/duckdb_setup.py)               *)
(*   - the validators           (src/ingestion/validator*.py)               *)
(* Python strings are tuples of one-character strings, Python None is the   *)
(* value None, a missing dict key is the value Missing.                     *)
(***************************************************************************)
EXTENDS Integers, Sequences, FiniteSets, TLC

\* Optional[str] results of the scraper: a body (a tuple of characters) or None
None == "None"

\* Values held in product dicts: None, a missing key, a number (fixed point,
\* in hundredths: 1234.56 is Num(123456)) and a string.
PyNone == [t |-> "none", n |-> 0, s |-> << >>]
Missing == [t |-> "missing", n |-> 0, s |-> << >>]
Num(x) == [t |-> "num", n |-> x, s |-> << >>]
Str(x) == [t |-> "str", n |-> 0, s |-> x]

\* dict.get(key) and dict.get(key, default) on a value that may be Missing
Get(v) == IF v = Missing THEN PyNone ELSE v
GetOr(v, default) == IF v = Missing THEN default ELSE v

(***************************************************************************)
(* Bounds of the model.                                                    *)
(***************************************************************************)
MaxIds == 2
MaxCalls == 7
MaxUpserts == 3
MaxTail == 4
MaxSanitize == 2
MaxPriceLen == 4
MaxBatch == 3
MaxRetriesOption == 5
MaxAttemptsArg == 4
MaxRaw == 4
MaxProducts == 3

(***************************************************************************)
(* Strings.                                                                *)
(***************************************************************************)
UpperLetters == <<"A", "B", "C", "D", "E", "F", "G", "H", "I", "J", "K", "L", "M",
                  "N", "O", "P", "Q", "R", "S", "T", "U", "V", "W", "X", "Y", "Z">>
LowerLetters == <<"a", "b", "c", "d", "e", "f", "g", "h", "i", "j", "k", "l", "m",
                  "n", "o", "p", "q", "r", "s", "t", "u", "v", "w", "x", "y", "z">>
UpperChars == {UpperLetters[i] : i \in 1..Len(UpperLetters)}
UpperToLower ==
    [c \in UpperChars |-> LowerLetters[CHOOSE i \in 1..Len(UpperLetters) : UpperLetters[i] = c]]

\* str.lower(): every cased character is mapped to its lowercase form
Lower(s) ==
    [i \in 1..Len(s) |-> IF s[i] \in DOMAIN UpperToLower THEN UpperToLower[s[i]] ELSE s[i]]

\* Python's `sub in s` on strings
Contains(s, sub) ==
    \E k \in 0..(Len(s) - Len(sub)) :
        \A j \in 1..Len(sub) : s[k + j] = sub[j]

(***************************************************************************)
(* HeaderManager                                                           *)
(***************************************************************************)
Profiles ==
    << [user_agent |-> "Mozilla/5.0 (Windows NT 10.0; Win64; x64) AppleWebKit/537.36",
        accept_language |-> "en-US,en;q=0.9",
        accept_encoding |-> "gzip, deflate, br",
        platform |-> "Win32"],
       [user_agent |-> "Mozilla/5.0 (Macintosh; Intel Mac OS X 10_15_7) AppleWebKit/537.36",
        accept_language |-> "en-GB,en;q=0.9",
        accept_encoding |-> "gzip, deflate, br",
        platform |-> "MacIntel"],
       [user_agent |-> "Mozilla/5.0 (X11; Linux x86_64) AppleWebKit/537.36",
        accept_language |-> "en-US,en;q=0.8",
        accept_encoding |-> "gzip, deflate",
        platform |-> "Linux x86_64"] >>

NumProfiles == Len(Profiles)

\* the header map get_headers builds from a profile (the constant entries are
\* the same for every profile and are left out)
HeadersOf(profile) ==
    [User_Agent |-> profile.user_agent,
     Accept_Language |-> profile.accept_language,
     Accept_Encoding |-> profile.accept_encoding]

\* no request has been made yet
NoHeaders == [User_Agent |-> "", Accept_Language |-> "", Accept_Encoding |-> ""]

\* a plausible slip: the profile is read after the cursor has advanced
get_headers_profile_post(index) == Profiles[((index + 1) % NumProfiles) + 1]

\* profile = self._profiles[self._current_profile_index]   (0-based index)
get_headers_profile(index) == Profiles[index + 1]

\* a slip: the cursor advances without wrapping around
get_headers_next_index_unwrapped(index) == index + 1

\* self._current_profile_index = (self._current_profile_index + 1) % len(self._profiles)
get_headers_next_index(index) == (index + 1) % NumProfiles

\* random.randint(0, len(self._profiles) - 1): both ends included
rotate_user_agent_choices == 0..(NumProfiles - 1)

(***************************************************************************)
(* AmazonScraper                                                           *)
(***************************************************************************)
bot_indicators ==
    { <<"r","o","b","o","t"," ","c","h","e","c","k">>,
      <<"c","a","p","t","c","h","a">>,
      <<"e","n","t","e","r"," ","t","h","e"," ","c","h","a","r","a","c","t","e","r","s"," ","y","o","u"," ","s","e","e"," ","b","e","l","o","w">>,
      <<"s","o","r","r","y",","," ","w","e"," ","j","u","s","t"," ","n","e","e","d"," ","t","o"," ","m","a","k","e"," ","s","u","r","e"," ","y","o","u","'","r","e"," ","n","o","t"," ","a"," ","r","o","b","o","t">>,
      <<"t","o"," ","d","i","s","c","u","s","s"," ","a","u","t","o","m","a","t","e","d"," ","a","c","c","e","s","s"," ","t","o"," ","a","m","a","z","o","n"," ","d","a","t","a">>,
      <<"/","e","r","r","o","r","s","/","v","a","l","i","d","a","t","e","c","a","p","t","c","h","a">>,
      <<"a","p","i","-","s","e","r","v","i","c","e","s","-","s","u","p","p","o","r","t","@","a","m","a","z","o","n",".","c","o","m">> }

\* the max_attempts=3 that scrape_multiple_products passes to scrape_with_retry
BatchMaxAttempts == 3

\* Response bodies the site may send.
EmptyBody == << >>
CleanBody == <<"o","k">>
NearMissBody == <<"c","a","p","t","c","h">>
CaptchaBody == <<"c","a","p","t","c","h","a">>
UpperCaptchaBody == <<"x","C","A","P","T","C","H","A">>

\* What session.get may produce: a response (status code, text) or a
\* requests.RequestException (time-out, connection error, ...).
RequestException == [exception |-> TRUE, status_code |-> 0, text |-> EmptyBody]

Response(status, body) == [exception |-> FALSE, status_code |-> status, text |-> body]

\* no request has been made in the current attempt
NoResponse == [exception |-> FALSE, status_code |-> 0, text |-> EmptyBody]

Responses ==
    { RequestException,
      Response(200, EmptyBody), Response(200, CleanBody), Response(200, NearMissBody),
      Response(200, CaptchaBody), Response(200, UpperCaptchaBody),
      Response(204, CleanBody), Response(204, CaptchaBody),
      Response(503, UpperCaptchaBody) }

\* a plausible slip: the indicators are searched in the body as received
HasBotIndicatorCaseSensitive(content) ==
    \E indicator \in bot_indicators : Contains(content, indicator)

\* content_lower = content.lower(); any(indicator in content_lower ...)
HasBotIndicator(content) ==
    \E indicator \in bot_indicators : Contains(Lower(content), indicator)

\* scrape_product reaches the bot check: no exception and status_code == 200
ReachesBotCheck(r) == ~r.exception /\ r.status_code = 200

\* scrape_product calls rotate_user_agent: the bot check finds an indicator
Blocked(r) == ReachesBotCheck(r) /\ HasBotIndicator(r.text)

\* the value scrape_product returns for a response
ScrapeProductResult(r) ==
    IF r.exception THEN None
    ELSE IF r.status_code # 200 THEN None
    ELSE IF HasBotIndicator(r.text) THEN None
    ELSE r.text

\* Python truthiness of an Optional[str]: None and "" are false
Truthy(h) == h # None /\ h # EmptyBody

Ids == {"B08N5WRWNW", "B0CHX1W1XY"}

IdLists == UNION { [1..n -> Ids] : n \in 0..MaxIds }

\* the loop variable of scrape_multiple_products after the item at position i
\* returned r, when a failed item ends the batch (a plausible slip)
NextItemStopOnFailure(i, r, n) == IF r = None THEN n + 1 ELSE i + 1

\* for idx, product_id in enumerate(product_ids, start=1): the next position
\* after the item at position i returned r, in a list of n identifiers
NextItem(i, r, n) == i + 1

(***************************************************************************)
(* State                                                                   *)
(***************************************************************************)
VARIABLES
    current_profile_index,  \* HeaderManager._current_profile_index
    getCalls,               \* get_headers calls a direct client has made so far
    rotateCalls,            \* rotate_user_agent calls a direct client has made so far
    lastHeaders,            \* headers returned by the latest get_headers call
    prevHeaders,            \* headers returned by the get_headers call before it
    product_ids,            \* argument of scrape_multiple_products
    idx,                    \* position of the item being scraped (1-based)
    attempt,                \* loop variable of scrape_with_retry
    pc,                     \* control point of the scraper
    html,                   \* value returned by the latest scrape_product call
    results,                \* the dict scrape_multiple_products builds
    resp,                   \* what session.get produced in the latest attempt
    rotatedInAttempt,       \* the latest scrape_product called rotate_user_agent
    cursor0,                \* cursor when the current scrape_with_retry began
    okSeen,                 \* attempts of this item that returned a body (not None)
    firstOk,                \* body returned by the first such attempt
    allCaptcha,             \* every attempt of this item got a body containing "captcha"
    tried,                  \* scrape_product calls made per position of product_ids
    products,               \* rows of the products table
    price_history,          \* rows of the price_history table, in insertion order
    upserts,                \* (product_id, price, availability) of every update_product call
    latest,                 \* product_data of the latest update_product call per product_id
    record,                 \* the dict handed to a validator
    vresult,                \* the errors the validator returned
    vwho,                   \* which validator returned them
    asins,                  \* the identifiers run_scraper.main resolved
    mpc,                    \* control point of run_scraper.main
    html_results,           \* main: what the batch scrape returned
    pidx,                   \* main: position of the parse loop in html_results
    parsed_results,         \* main: the parsed records
    valid_products,         \* main: records that passed validate_batch, then cleaned
    invalid_products,       \* main: records that failed validate_batch
    saved,                  \* main: the content of scraper_output.json
    stageLog,               \* (stage, position in the supplied list) of every stage run
    heap,                   \* the dict objects of a sanitizer client, by reference
    rets,                   \* the references the sanitizer calls returned, in call order
    arg,                    \* the argument of a parser function called on its own
    ret,                    \* what that call returned
    called,                 \* which parser function was called
    raw_data,               \* load_to_raw_table: its argument data, a list of product ids
    lpos,                   \* the record the loop is at
    records_inserted,       \* the counter of the loop
    stamped,                \* the positions of the records given _raw_id and _loaded_at
    executed,               \* the calls of db_conn.execute: product id and whether it succeeded
    lstate,                 \* "idle", "loop" or "returned"
    lret,                   \* the value load_to_raw_table returned
    request_count,          \* finder.request_count
    requests_issued,        \* the calls of finder.session.get so far
    category,               \* main: the position in ALL_CATEGORIES
    term,                   \* main: the position in searches[:2]
    search_attempt,         \* search_with_ultra_safety: the attempt about to be made
    category_count,         \* main: the categories that gave products
    category_products,      \* main: whether category_products is non-empty
    unique_products,        \* main: len(unique_products), counted up to MaxValidated
    to_validate,            \* main: the number of identifiers to validate
    vidx,                   \* main: the position in the validation loop
    blocked,                \* whether a response of the run has signalled blocking
    fpc,                    \* main: "idle", "category", "term", "attempt", "phase1", "validate", "done"
    max_retries,            \* AmazonScraper.max_retries, from the configuration
    request_delay,          \* AmazonScraper.request_delay, in tenths of a second
    via_batch,              \* scrape_with_retry is called by scrape_multiple_products
    n_items,                \* the number of identifiers to fetch
    item,                   \* the position of the identifier being fetched
    retry_max_attempts,     \* scrape_with_retry: its argument max_attempts
    retry_attempt,          \* scrape_with_retry: its loop variable attempt
    retry_pc,               \* "idle", "batch", "attempt", "failed", "done"
    retry_result,           \* what the latest scrape_with_retry returned: "html", "none", "pending"
    events,                 \* the attempts, rotations and backoff sleeps of the latest scrape_with_retry
    run_db,                 \* PipelineRunner.db_conn is set
    run_raw,                \* len(raw_data), -1 before the extraction
    run_transformed,        \* len(transformed_data), -1 before the transformation
    run_quality,            \* quality_passed: "unset", "passed" or "failed"
    run_phases,             \* the phases PipelineRunner.run has started, in order
    run_pc,                 \* "idle", "extract", "load_raw", "transform", "quality", "load_clean", "done"
    run_ret                 \* what run returned: "pending", "True", "False" or "raised"

hmVars == <<current_profile_index, getCalls, rotateCalls, lastHeaders, prevHeaders>>

fetchVars == <<product_ids, idx, attempt, pc, html, results, resp, rotatedInAttempt,
               cursor0, okSeen, firstOk, allCaptcha, tried>>

storeVars == <<products, price_history, upserts, latest>>

validateVars == <<record, vresult, vwho>>

mainVars == <<asins, mpc, html_results, pidx, parsed_results, valid_products,
              invalid_products, saved>>

\* the state outside the scraper and its HeaderManager
objVars == <<heap, rets>>

\* the state of the components modelled on their own
parseVars == <<arg, ret, called>>

loadVars == <<raw_data, lpos, records_inserted, stamped, executed, lstate, lret>>

finderVars == <<request_count, requests_issued, category, term, search_attempt,
                category_count, category_products, unique_products,
                to_validate, vidx, blocked, fpc>>

laterVars == <<loadVars, finderVars>>

backoffVars == <<max_retries, request_delay, via_batch, n_items, item,
                 retry_max_attempts, retry_attempt, retry_pc, retry_result, events>>

runVars == <<run_db, run_raw, run_transformed, run_quality, run_phases, run_pc, run_ret>>

lastVars == <<backoffVars, runVars>>

restVars == <<objVars, parseVars, laterVars, lastVars>>

beyondFetch == <<storeVars, validateVars, mainVars, restVars>>

vars == <<hmVars, fetchVars, storeVars, validateVars, mainVars, stageLog, restVars>>

\* no sanitizer client is running
ObjIdle ==
    /\ heap = << >>
    /\ rets = << >>

\* no parser function has been called
ParseIdle ==
    /\ arg = << >>
    /\ ret = << >>
    /\ called = "idle"

\* load_to_raw_table has not been called
LoadIdle ==
    /\ raw_data = << >>
    /\ lpos = 0
    /\ records_inserted = 0
    /\ stamped = {}
    /\ executed = << >>
    /\ lstate = "idle"
    /\ lret = 0

\* the ASIN finder has not been started
FinderIdle ==
    /\ request_count = 0
    /\ requests_issued = 0
    /\ category = 1
    /\ term = 1
    /\ search_attempt = 1
    /\ category_count = 0
    /\ category_products = FALSE
    /\ unique_products = 0
    /\ to_validate = 0
    /\ vidx = 1
    /\ blocked = FALSE
    /\ fpc = "idle"

LaterIdle == LoadIdle /\ FinderIdle

\* no scraper with a configuration of its own has been built
BackoffIdle ==
    /\ max_retries = 3
    /\ request_delay = 20
    /\ via_batch = FALSE
    /\ n_items = 0
    /\ item = 1
    /\ retry_max_attempts = 3
    /\ retry_attempt = 0
    /\ retry_pc = "idle"
    /\ retry_result = "pending"
    /\ events = << >>

\* PipelineRunner.run has not been called
RunIdle ==
    /\ run_db = FALSE
    /\ run_raw = -1
    /\ run_transformed = -1
    /\ run_quality = "unset"
    /\ run_phases = << >>
    /\ run_pc = "idle"
    /\ run_ret = "pending"

LastIdle == BackoffIdle /\ RunIdle

RestIdle == ObjIdle /\ ParseIdle /\ LaterIdle /\ LastIdle

\* HeaderManager.__init__
HMInit ==
    /\ current_profile_index = 0
    /\ getCalls = 0
    /\ rotateCalls = 0
    /\ lastHeaders = NoHeaders
    /\ prevHeaders = NoHeaders

\* no scrape_multiple_products call is in progress
FetchIdle ==
    /\ product_ids = << >>
    /\ idx = 1
    /\ attempt = 0
    /\ pc = "idle"
    /\ html = None
    /\ results = << >>
    /\ resp = NoResponse
    /\ rotatedInAttempt = FALSE
    /\ cursor0 = 0
    /\ okSeen = 0
    /\ firstOk = None
    /\ allCaptcha = TRUE
    /\ tried = << >>

\* scrape_multiple_products(product_ids) has just been entered
FetchInit ==
    /\ product_ids \in IdLists
    /\ idx = 1
    /\ attempt = 0
    /\ pc = "batch"
    /\ html = None
    /\ results = << >>
    /\ resp = NoResponse
    /\ rotatedInAttempt = FALSE
    /\ cursor0 = 0
    /\ okSeen = 0
    /\ firstOk = None
    /\ allCaptcha = TRUE
    /\ tried = [i \in 1..Len(product_ids) |-> 0]

(***************************************************************************)
(* HeaderManager driven directly by a client                               *)
(***************************************************************************)
get_headers ==
    /\ getCalls < MaxCalls
    /\ current_profile_index' = get_headers_next_index(current_profile_index)
    /\ lastHeaders' = HeadersOf(get_headers_profile(current_profile_index))
    /\ prevHeaders' = lastHeaders
    /\ getCalls' = getCalls + 1
    /\ UNCHANGED <<rotateCalls, fetchVars>>
    /\ UNCHANGED <<beyondFetch, stageLog>>

rotate_user_agent ==
    /\ rotateCalls < MaxCalls
    /\ \E r \in rotate_user_agent_choices : current_profile_index' = r
    /\ rotateCalls' = rotateCalls + 1
    /\ UNCHANGED <<getCalls, lastHeaders, prevHeaders, fetchVars>>
    /\ UNCHANGED <<beyondFetch, stageLog>>

(***************************************************************************)
(* scrape_multiple_products / scrape_with_retry / scrape_product           *)
(***************************************************************************)
\* scrape_multiple_products: the loop takes the next identifier and enters
\* scrape_with_retry(product_id, max_attempts=3)
StartItem ==
    /\ pc = "batch"
    /\ idx <= Len(product_ids)
    /\ attempt' = 1
    /\ pc' = "attempt"
    /\ cursor0' = current_profile_index
    /\ okSeen' = 0
    /\ firstOk' = None
    /\ allCaptcha' = TRUE
    /\ html' = None
    /\ resp' = NoResponse
    /\ rotatedInAttempt' = FALSE
    /\ UNCHANGED <<hmVars, product_ids, idx, results, tried>>
    /\ stageLog' = Append(stageLog, <<"fetch", idx>>)
    /\ UNCHANGED beyondFetch

\* scrape_product(product_id): one request and its classification
scrape_product ==
    /\ pc = "attempt"
    /\ \E r \in Responses :
         /\ resp' = r
         /\ html' = ScrapeProductResult(r)
         /\ rotatedInAttempt' = Blocked(r)
         /\ \E next \in (IF Blocked(r) THEN rotate_user_agent_choices
                          ELSE {get_headers_next_index(current_profile_index)}) :
                current_profile_index' = next
         /\ okSeen' = okSeen + (IF ScrapeProductResult(r) # None THEN 1 ELSE 0)
         /\ firstOk' = IF okSeen = 0 THEN ScrapeProductResult(r) ELSE firstOk
         /\ allCaptcha' = (allCaptcha /\ ~r.exception
                                      /\ Contains(Lower(r.text), CaptchaBody))
    /\ lastHeaders' = HeadersOf(get_headers_profile(current_profile_index))
    /\ prevHeaders' = lastHeaders
    /\ tried' = [tried EXCEPT ![idx] = @ + 1]
    /\ pc' = "returned"
    /\ UNCHANGED <<getCalls, rotateCalls, product_ids, idx, attempt, results, cursor0>>
    /\ UNCHANGED <<beyondFetch, stageLog>>

\* results[product_id] = value
SetResult(d, k, value) ==
    [x \in (DOMAIN d) \cup {k} |-> IF x = k THEN value ELSE d[x]]

\* scrape_with_retry: `if html: return html`, stored by scrape_multiple_products
RetryReturnHtml ==
    /\ pc = "returned"
    /\ Truthy(html)
    /\ results' = SetResult(results, product_ids[idx], html)
    /\ idx' = NextItem(idx, html, Len(product_ids))
    /\ pc' = "batch"
    /\ UNCHANGED <<hmVars, product_ids, attempt, html, resp, rotatedInAttempt,
                   cursor0, okSeen, firstOk, allCaptcha, tried>>
    /\ UNCHANGED <<beyondFetch, stageLog>>

\* scrape_with_retry: `if attempt < max_attempts:` rotate, back off, loop
RetryBackoff ==
    /\ pc = "returned"
    /\ ~Truthy(html)
    /\ attempt < BatchMaxAttempts
    /\ \E r \in rotate_user_agent_choices : current_profile_index' = r
    /\ attempt' = attempt + 1
    /\ pc' = "attempt"
    /\ UNCHANGED <<getCalls, rotateCalls, lastHeaders, prevHeaders, product_ids, idx, html, results,
                   resp, rotatedInAttempt, cursor0, okSeen, firstOk, allCaptcha, tried>>
    /\ UNCHANGED <<beyondFetch, stageLog>>

\* scrape_with_retry: the loop is exhausted, `return None`
RetryExhausted ==
    /\ pc = "returned"
    /\ ~Truthy(html)
    /\ attempt >= BatchMaxAttempts
    /\ results' = SetResult(results, product_ids[idx], None)
    /\ idx' = NextItem(idx, None, Len(product_ids))
    /\ pc' = "batch"
    /\ UNCHANGED <<hmVars, product_ids, attempt, html, resp, rotatedInAttempt,
                   cursor0, okSeen, firstOk, allCaptcha, tried>>
    /\ UNCHANGED <<beyondFetch, stageLog>>

\* scrape_multiple_products: `return results`
BatchReturn ==
    /\ pc = "batch"
    /\ idx > Len(product_ids)
    /\ pc' = "done"
    /\ UNCHANGED <<hmVars, product_ids, idx, attempt, html, results, resp,
                   rotatedInAttempt, cursor0, okSeen, firstOk, allCaptcha, tried>>
    /\ UNCHANGED <<beyondFetch, stageLog>>


(***************************************************************************)
(* Storage: update_product                                                 *)
(***************************************************************************)
Titles == << <<"t","1">>, <<"t","2">> >>
Ratings == << PyNone, Num(450) >>
Sellers == << <<"s","1">>, <<"s","2">> >>
Urls == { <<"u","1">>, <<"u","2">> }
InStock == <<"i","n","_","s","t","o","c","k">>
OutOfStock == <<"o","u","t","_","o","f","_","s","t","o","c","k">>
Unknown == <<"u","n","k","n","o","w","n">>
Available == <<"a","v","a","i","l","a","b","l","e">>

\* the product_data dicts passed to update_product; title, rating and seller
\* vary together (variant v)
ProductData(pid, price, availability, v, url) ==
    [product_id |-> pid, price |-> price, availability |-> availability,
     title |-> Str(Titles[v]), rating |-> Ratings[v], seller |-> Str(Sellers[v]),
     url |-> Str(url)]

ProductDataInputs ==
    { ProductData(pid, price, availability, v, url) :
        pid \in Ids, price \in {PyNone, Num(0), Num(49900)},
        availability \in {Missing, Str(InStock)}, v \in {1, 2}, url \in Urls }

\* the parameter tuple of the INSERT INTO products statement
ProductRow(d) ==
    [product_id |-> d.product_id,
     title |-> Get(d.title),
     current_price |-> Get(d.price),
     availability |-> GetOr(d.availability, Str(Unknown)),
     rating |-> Get(d.rating),
     seller |-> Get(d.seller),
     url |-> Get(d.url)]

\* ON CONFLICT (product_id) DO UPDATE SET title, current_price, availability,
\* rating, seller (last_seen_at and is_active are not modelled): url is not
\* in the SET list and keeps the stored value
OnConflictUpdate(old, new) ==
    [old EXCEPT !.title = new.title,
                !.current_price = new.current_price,
                !.availability = new.availability,
                !.rating = new.rating,
                !.seller = new.seller]

\* INSERT INTO products ... ON CONFLICT (product_id) DO UPDATE SET ...
UpsertProducts(table, new) ==
    IF \E i \in 1..Len(table) : table[i].product_id = new.product_id
    THEN [i \in 1..Len(table) |->
            IF table[i].product_id = new.product_id
            THEN OnConflictUpdate(table[i], new) ELSE table[i]]
    ELSE Append(table, new)

\* SELECT current_price FROM products WHERE product_id = ?  (fetchone, then
\* old_price = current[0] if current else None)
OldPrice(table, pid) ==
    IF \E i \in 1..Len(table) : table[i].product_id = pid
    THEN (CHOOSE r \in {table[i] : i \in 1..Len(table)} : r.product_id = pid).current_price
    ELSE PyNone

\* the history insert as the comment above it describes it ("if price changed")
AppendsHistoryIfChanged(price, old_price) == price # PyNone /\ price # old_price

\* `if price is not None:` guards the INSERT INTO price_history
AppendsHistory(price, old_price) == price # PyNone

\* the parameter tuple of the INSERT INTO price_history statement
HistoryRow(pid, price, availability) ==
    [product_id |-> pid, price |-> price, availability |-> availability]

StoreIdle ==
    /\ products = << >>
    /\ price_history = << >>
    /\ upserts = << >>
    /\ latest = << >>

update_product ==
    /\ Len(upserts) < MaxUpserts
    /\ \E d \in ProductDataInputs :
         LET pid == d.product_id
             price == Get(d.price)
             availability == GetOr(d.availability, Str(Unknown))
             old_price == OldPrice(products, pid)
         IN /\ products' = UpsertProducts(products, ProductRow(d))
            /\ price_history' =
                 IF AppendsHistory(price, old_price)
                 THEN Append(price_history, HistoryRow(pid, price, availability))
                 ELSE price_history
            /\ upserts' = Append(upserts, [product_id |-> pid, price |-> d.price,
                                           availability |-> d.availability])
            /\ latest' = SetResult(latest, pid, d)
    /\ UNCHANGED <<hmVars, fetchVars, validateVars, mainVars, stageLog, restVars>>


(***************************************************************************)
(* Validation helpers                                                      *)
(***************************************************************************)
Whitespace == {" ", "\n", "\t"}
DigitChars == {"0", "1", "2", "3", "4", "5", "6", "7", "8", "9"}

RECURSIVE LStrip(_)
LStrip(s) == IF s # << >> /\ Head(s) \in Whitespace THEN LStrip(Tail(s)) ELSE s

RECURSIVE RStrip(_)
RStrip(s) ==
    IF s # << >> /\ s[Len(s)] \in Whitespace THEN RStrip(SubSeq(s, 1, Len(s) - 1)) ELSE s

\* str.strip()
Strip(s) == RStrip(LStrip(s))

\* re.match(r'^[A-Z0-9]{10}$', s): ten characters of the class, then the end
\* of the string or one final newline (Python's `$`)
AsinRegexMatch(s) ==
    /\ Len(s) \in {10, 11}
    /\ \A i \in 1..10 : s[i] \in UpperChars \cup DigitChars
    /\ Len(s) = 11 => s[11] = "\n"

DigitValue(c) == CHOOSE d \in 0..9 : <<"0","1","2","3","4","5","6","7","8","9">>[d + 1] = c

RECURSIVE DigitsValue(_)
DigitsValue(s) ==
    IF s = << >> THEN 0 ELSE 10 * DigitsValue(SubSeq(s, 1, Len(s) - 1)) + DigitValue(s[Len(s)])

\* text float() accepts, as far as the inputs of the model go: digits with at
\* most one decimal point and at least one digit
IsDecimalText(s) ==
    /\ \A i \in 1..Len(s) : s[i] \in DigitChars \cup {"."}
    /\ Cardinality({i \in 1..Len(s) : s[i] = "."}) <= 1
    /\ \E i \in 1..Len(s) : s[i] \in DigitChars

\* the value of such a text, in hundredths (digits after the second decimal
\* place are dropped)
DecimalValue(s) ==
    LET dots == {i \in 1..Len(s) : s[i] = "."}
        dot == IF dots = {} THEN Len(s) + 1 ELSE CHOOSE i \in dots : TRUE
        whole == SubSeq(s, 1, dot - 1)
        frac == SubSeq(s, dot + 1, Len(s))
        frac2 == SubSeq(frac \o <<"0", "0">>, 1, 2)
    IN 100 * DigitsValue(whole) + DigitsValue(frac2)

\* float(v) succeeds (no ValueError / TypeError)
FloatOk(v) == v.t = "num" \/ (v.t = "str" /\ IsDecimalText(Strip(v.s)))

\* float(v), in hundredths
FloatVal(v) == IF v.t = "num" THEN v.n ELSE DecimalValue(Strip(v.s))

\* Python truthiness of a dict value (`not v` is ~Truth(v))
Truth(v) ==
    CASE v.t = "none" -> FALSE
      [] v.t = "missing" -> FALSE
      [] v.t = "num" -> v.n # 0
      [] v.t = "str" -> v.s # << >>

\* a violation message: the rule's field and the fixed part of its text
Msg(field, text) == [field |-> field, text |-> text]

(***************************************************************************)
(* validator.py: validate_product                                          *)
(***************************************************************************)
\* 10 million, the price sanity ceiling of validate_product (in hundredths)
SuspiciousPrice == 1000000000
MinTitleLength == 3
MaxRating == 500

\* validate_product(data): (False, reason) at the first failed check, else (True, "OK");
\* the result is the list of reasons (empty when valid)
validate_product(data) ==
    LET pid == Get(data.product_id)
        price == Get(data.price)
        title == Get(data.title)
        rating == Get(data.rating)
    IN IF \A k \in DOMAIN data : data[k] = Missing
         THEN << Msg("data", "Empty data") >>
       ELSE IF ~Truth(pid)
         THEN << Msg("asin", "Missing product_id") >>
       ELSE IF ~AsinRegexMatch(pid.s)
         THEN << Msg("asin", "Invalid ASIN format") >>
       ELSE IF price # PyNone /\ ~FloatOk(price)
         THEN << Msg("price", "Invalid price") >>
       ELSE IF price # PyNone /\ FloatVal(price) <= 0
         THEN << Msg("price", "Price must be positive") >>
       ELSE IF price # PyNone /\ FloatVal(price) > SuspiciousPrice
         THEN << Msg("price", "Suspiciously high price") >>
       ELSE IF ~Truth(title) \/ Len(Strip(title.s)) < MinTitleLength
         THEN << Msg("title", "Title too short") >>
       ELSE IF Get(data.availability) = Str(InStock) /\ price = PyNone
         THEN << Msg("availability", "In-stock item missing price") >>
       ELSE IF rating # PyNone /\ ~FloatOk(rating)
         THEN << Msg("rating", "Invalid rating") >>
       ELSE IF rating # PyNone /\ ~(0 <= FloatVal(rating) /\ FloatVal(rating) <= MaxRating)
         THEN << Msg("rating", "Rating out of range") >>
       ELSE << >>

(***************************************************************************)
(* validator/field_validators.py: each returns (ok, error); here the list  *)
(* of its errors, empty when ok                                            *)
(***************************************************************************)
\* default_rules of DataValidator._load_validation_rules (prices and ratings
\* in hundredths)
price_min == 1
price_max == 100000000
title_min_length == 3
MaxTitleLength == 500
rating_min == 0
rating_max == 500
review_count_min == 0
discount_min == 0
discount_max == 10000

StartsWith(s, p) == Len(s) >= Len(p) /\ SubSeq(s, 1, Len(p)) = p

validate_asin(asin) ==
    IF ~Truth(asin) \/ asin.t # "str"
      THEN << Msg("asin", "ASIN must be a non-empty string") >>
    ELSE IF ~AsinRegexMatch(Strip(asin.s))
      THEN << Msg("asin", "Invalid ASIN format") >>
    ELSE << >>

\* ^https?://(www\.)?amazon\.(com|co\.uk|de|fr|it|es|ca|co\.jp)/
UrlSchemes == {<<"h","t","t","p",":","/","/">>, <<"h","t","t","p","s",":","/","/">>}
UrlHosts == {<< >>, <<"w","w","w",".">>}
UrlDomains ==
    {<<"c","o","m">>, <<"c","o",".","u","k">>, <<"d","e">>, <<"f","r">>, <<"i","t">>,
     <<"e","s">>, <<"c","a">>, <<"c","o",".","j","p">>}
UrlPrefixes ==
    {sch \o h \o <<"a","m","a","z","o","n",".">> \o d \o <<"/">> :
        sch \in UrlSchemes, h \in UrlHosts, d \in UrlDomains}

\* re.search(pattern, url, re.IGNORECASE)
UrlRegexMatch(s) == \E p \in UrlPrefixes : StartsWith(Lower(s), p)

validate_url(url) ==
    IF ~Truth(url) \/ url.t # "str"
      THEN << Msg("url", "URL must be a non-empty string") >>
    ELSE IF ~UrlRegexMatch(url.s)
      THEN << Msg("url", "URL must be a valid Amazon URL") >>
    ELSE << >>

\* a title longer than max_length is only logged
validate_title(title) ==
    IF ~Truth(title) \/ title.t # "str"
      THEN << Msg("title", "Title must be a non-empty string") >>
    ELSE IF Len(Strip(title.s)) < title_min_length
      THEN << Msg("title", "Title too short") >>
    ELSE << >>

validate_price(price) ==
    IF ~FloatOk(price) THEN << Msg("price", "Price must be a number") >>
    ELSE IF FloatVal(price) < price_min THEN << Msg("price", "Price too low") >>
    ELSE IF FloatVal(price) > price_max THEN << Msg("price", "Price too high") >>
    ELSE << >>

validate_discount(discount) ==
    IF ~FloatOk(discount) THEN << Msg("discount", "Discount must be a number") >>
    ELSE IF FloatVal(discount) < discount_min THEN << Msg("discount", "Discount too low") >>
    ELSE IF FloatVal(discount) > discount_max THEN << Msg("discount", "Discount too high") >>
    ELSE << >>

validate_rating(rating) ==
    IF ~FloatOk(rating) THEN << Msg("rating", "Rating must be a number") >>
    ELSE IF FloatVal(rating) < rating_min THEN << Msg("rating", "Rating too low") >>
    ELSE IF FloatVal(rating) > rating_max THEN << Msg("rating", "Rating too high") >>
    ELSE << >>

\* int(v) succeeds: a number, or a text of digits
IntOk(v) ==
    \/ v.t = "num"
    \/ v.t = "str" /\ Strip(v.s) # << >> /\ \A i \in 1..Len(Strip(v.s)) : Strip(v.s)[i] \in DigitChars

\* int(v), in hundredths like every number of the model (int() of a float
\* truncates towards zero)
IntVal(v) ==
    IF v.t = "str" THEN 100 * DigitsValue(Strip(v.s))
    ELSE IF v.n >= 0 THEN 100 * (v.n \div 100) ELSE -(100 * ((-v.n) \div 100))

\* a count above the maximum is only logged
validate_review_count(review_count) ==
    IF ~IntOk(review_count)
      THEN << Msg("review_count", "Review count must be an integer") >>
    ELSE IF IntVal(review_count) < review_count_min
      THEN << Msg("review_count", "Review count too low") >>
    ELSE << >>

\* timestamp.replace('Z', '+00:00')
RECURSIVE ReplaceZ(_)
ReplaceZ(s) ==
    IF s = << >> THEN << >>
    ELSE (IF Head(s) = "Z" THEN <<"+", "0", "0", ":", "0", "0">> ELSE <<Head(s)>>)
             \o ReplaceZ(Tail(s))

\* datetime.fromisoformat on the forms YYYY-MM-DD, YYYY-MM-DDTHH:MM:SS and
\* YYYY-MM-DDTHH:MM:SS+HH:MM; the shape and the ranges of month, day, hour,
\* minute and second are checked
TwoDigits(s, i) == DigitsValue(SubSeq(s, i, i + 1))
IsoDateOk(s) ==
    /\ Len(s) >= 10
    /\ \A i \in {1, 2, 3, 4, 6, 7, 9, 10} : s[i] \in DigitChars
    /\ s[5] = "-" /\ s[8] = "-"
    /\ TwoDigits(s, 6) \in 1..12
    /\ TwoDigits(s, 9) \in 1..31
IsoTimeOk(s) ==
    /\ Len(s) \in {19, 25}
    /\ Len(s) = 25 =>
          /\ s[20] \in {"+", "-"} /\ s[23] = ":"
          /\ \A i \in {21, 22, 24, 25} : s[i] \in DigitChars
          /\ TwoDigits(s, 21) \in 0..23 /\ TwoDigits(s, 24) \in 0..59
    /\ s[11] \in {"T", " "}
    /\ \A i \in {12, 13, 15, 16, 18, 19} : s[i] \in DigitChars
    /\ s[14] = ":" /\ s[17] = ":"
    /\ TwoDigits(s, 12) \in 0..23 /\ TwoDigits(s, 15) \in 0..59 /\ TwoDigits(s, 18) \in 0..59
FromIsoFormatOk(s) == IsoDateOk(s) /\ (Len(s) = 10 \/ IsoTimeOk(s))

validate_timestamp(timestamp) ==
    IF ~Truth(timestamp) THEN << Msg("timestamp", "Timestamp is required") >>
    ELSE IF timestamp.t # "str" THEN << Msg("timestamp", "Invalid timestamp type") >>
    ELSE IF ~FromIsoFormatOk(ReplaceZ(timestamp.s)) THEN << Msg("timestamp", "Invalid timestamp format") >>
    ELSE << >>

\* unknown statuses are only logged
validate_availability(availability) == << >>

(***************************************************************************)
(* validator/base_validator.py: DataValidator.validate_product_data        *)
(***************************************************************************)
\* `key in product_data`
Has(v) == v # Missing

\* the cross-field checks appended after the field checks: an item that is
\* in stock or available must carry a current price
validate_business_logic(product_data) ==
    IF /\ Get(product_data.availability) \in {Str(InStock), Str(Available)}
       /\ Get(product_data.current_price) = PyNone
      THEN << Msg("availability", "In-stock item missing price") >>
      ELSE << >>

\* errors.append / errors.extend over the checks in order, stopping at the first
CollectFirstError(parts) ==
    LET hits == {i \in 1..Len(parts) : parts[i] # << >>}
    IN IF hits = {} THEN << >>
       ELSE parts[CHOOSE i \in hits : \A j \in hits : i <= j]

\* errors.append / errors.extend over the checks in order
RECURSIVE CollectErrors(_)
CollectErrors(parts) ==
    IF parts = << >> THEN << >> ELSE Head(parts) \o CollectErrors(Tail(parts))

required_fields == <<"asin", "url", "timestamp">>

\* `if field not in product_data or not product_data[field]`
MissingRequired(product_data, field) ==
    IF ~Has(product_data[field]) \/ ~Truth(product_data[field])
      THEN << Msg(field, "Missing required field") >>
      ELSE << >>

\* validate_product_data(product_data): (is_valid, errors); here errors
validate_product_data(product_data) ==
    LET d == product_data
    IN CollectErrors(<<
         MissingRequired(d, required_fields[1]),
         MissingRequired(d, required_fields[2]),
         MissingRequired(d, required_fields[3]),
         IF Has(d.asin) THEN validate_asin(d.asin) ELSE << >>,
         IF Has(d.url) THEN validate_url(d.url) ELSE << >>,
         IF Has(d.title) THEN validate_title(d.title) ELSE << >>,
         IF Has(d.current_price) THEN validate_price(d.current_price) ELSE << >>,
         IF Has(d.original_price) /\ Truth(d.original_price)
           THEN validate_price(d.original_price) ELSE << >>,
         IF Has(d.discount_percentage) /\ d.discount_percentage # PyNone
           THEN validate_discount(d.discount_percentage) ELSE << >>,
         IF Has(d.rating) /\ d.rating # PyNone THEN validate_rating(d.rating) ELSE << >>,
         IF Has(d.review_count) /\ d.review_count # PyNone
           THEN validate_review_count(d.review_count) ELSE << >>,
         IF Has(d.timestamp) THEN validate_timestamp(d.timestamp) ELSE << >>,
         IF Has(d.availability) THEN validate_availability(d.availability) ELSE << >>,
         validate_business_logic(d) >>)

(***************************************************************************)
(* Records handed to the validators                                        *)
(***************************************************************************)
GoodAsin == <<"B", "0", "8", "N", "5", "W", "R", "W", "N", "W">>
BadAsin == <<"b", "a", "d">>
GoodTitle == <<"E", "c", "h", "o">>
ShortTitle == <<" ", "a", "b", " ">>
GoodUrl == <<"h","t","t","p","s",":","/","/","A","m","a","z","o","n",".","c","o","m","/","x">>
BadUrl == <<"h","t","t","p","s",":","/","/","a","m","a","z","o","n",".","i","n","/","x">>
GoodTimestamp == <<"2","0","2","4","-","0","1","-","1","5","T","1","0",":","3","0",":","0","0","Z">>
BadTimestamp == <<"n", "o", "w">>
NotANumber == <<"N", "/", "A">>
Repeat(c, n) == [i \in 1..n |-> c]
LongTitle == Repeat("a", MaxTitleLength + 3)

EmptyRecord ==
    [k \in {"product_id", "price", "asin", "url", "current_price", "original_price",
            "discount_percentage", "title", "rating", "review_count", "timestamp",
            "availability", "seller"} |-> Missing]

\* records keyed as the scraper's parser keys them (product_id, price)
ScraperRecords ==
    {[EmptyRecord EXCEPT !.product_id = pid, !.price = price, !.title = title,
                         !.rating = rating, !.availability = availability] :
        pid \in {Missing, Str(GoodAsin), Str(BadAsin)},
        price \in {Missing, Num(49900), Num(0), Str(NotANumber)},
        title \in {Missing, Str(GoodTitle), Str(ShortTitle), Str(LongTitle)},
        rating \in {Missing, Num(450), Num(700)},
        availability \in {Missing, Str(InStock)}}

\* records keyed as DataValidator reads them (asin, current_price)
ParserRecords ==
    {[EmptyRecord EXCEPT !.asin = asin, !.url = url, !.current_price = price,
                         !.title = title, !.rating = rating, !.review_count = reviews,
                         !.timestamp = timestamp, !.availability = Str(InStock)] :
        asin \in {Missing, Str(GoodAsin), Str(BadAsin)},
        url \in {Str(GoodUrl), Str(BadUrl)},
        price \in {Missing, Num(49900), Num(0), Str(NotANumber)},
        title \in {Missing, Str(GoodTitle), Str(ShortTitle), Str(LongTitle)},
        rating \in {PyNone, Num(450), Num(700)},
        reviews \in {Missing, Num(1200), Num(-100)},
        timestamp \in {Str(GoodTimestamp), Str(BadTimestamp)}}

Records == ScraperRecords \cup ParserRecords

(***************************************************************************)
(* The validators applied to one record                                    *)
(***************************************************************************)
ValidateIdle ==
    /\ record = EmptyRecord
    /\ vresult = << >>
    /\ vwho = "idle"

ValidateInit ==
    /\ record \in Records
    /\ vresult = << >>
    /\ vwho = "idle"

\* validator.validate_product(record)
ValidateProduct ==
    /\ vwho = "idle"
    /\ vresult' = validate_product(record)
    /\ vwho' = "validate_product"
    /\ UNCHANGED <<record, hmVars, fetchVars, storeVars, mainVars, stageLog, restVars>>

\* DataValidator().validate_product_data(record)
ValidateProductData ==
    /\ vwho = "idle"
    /\ vresult' = validate_product_data(record)
    /\ vwho' = "validate_product_data"
    /\ UNCHANGED <<record, hmVars, fetchVars, storeVars, mainVars, stageLog, restVars>>

(***************************************************************************)
(* validator.py: clean_product_data, validate_batch                        *)
(***************************************************************************)
LowerToUpper ==
    [c \in {LowerLetters[i] : i \in 1..Len(LowerLetters)} |->
        UpperLetters[CHOOSE i \in 1..Len(LowerLetters) : LowerLetters[i] = c]]

\* str.upper()
Upper(s) ==
    [i \in 1..Len(s) |-> IF s[i] \in DOMAIN LowerToUpper THEN LowerToUpper[s[i]] ELSE s[i]]

Ellipsis == <<".", ".", ".">>

\* clean_product_data(data): the cleaned fields of the copy (titles, sellers
\* and identifiers of the model are strings or None)
clean_product_data(data) ==
    LET title ==
            IF Has(data.title) /\ Truth(data.title)
            THEN LET t == Strip(data.title.s)
                 IN Str(IF Len(t) > MaxTitleLength
                        THEN SubSeq(t, 1, MaxTitleLength - 3) \o Ellipsis ELSE t)
            ELSE data.title
        seller ==
            IF Has(data.seller) /\ Truth(data.seller) THEN Str(Strip(data.seller.s))
            ELSE data.seller
        pid ==
            IF Has(data.product_id) THEN Str(Strip(Upper(data.product_id.s)))
            ELSE data.product_id
        price ==
            IF Has(data.price) /\ Truth(data.price)
            THEN (IF FloatOk(data.price) THEN Num(FloatVal(data.price)) ELSE PyNone)
            ELSE data.price
    IN [data EXCEPT !.title = title, !.seller = seller, !.product_id = pid, !.price = price]

\* a slip: the append to invalid is outside the else
validate_batch_appends_all(batch) ==
    << SelectSeq(batch, LAMBDA p : validate_product(p) = << >>), batch >>

\* validate_batch(products): (valid, invalid)
validate_batch(batch) ==
    << SelectSeq(batch, LAMBDA p : validate_product(p) = << >>),
       SelectSeq(batch, LAMBDA p : validate_product(p) # << >>) >>

(***************************************************************************)
(* validator/sanitizers.py: DataSanitizer                                  *)
(***************************************************************************)
max_length == 500

\* ' '.join(s.split()) on a text without whitespace at its ends: of every
\* run of whitespace only the last character stays, as one blank
JoinSplit(s) ==
    LET withNext == [i \in 1..Len(s) |-> <<s[i], IF i < Len(s) THEN s[i + 1] ELSE " ">>]
        kept == SelectSeq(withNext, LAMBDA p : p[1] \notin Whitespace \/ p[2] \notin Whitespace)
    IN [i \in 1..Len(kept) |-> IF kept[i][1] \in Whitespace THEN " " ELSE kept[i][1]]

\* sanitize_string(value): whitespace runs collapsed and the ends trimmed,
\* then cut to max_length (the values of the model are strings or None)
sanitize_string(value) ==
    IF value = PyNone THEN PyNone
    ELSE LET string_value == JoinSplit(Strip(value.s))
         IN Str(IF Len(string_value) > max_length
                THEN SubSeq(string_value, 1, max_length) ELSE string_value)

\* re.sub(r'[^\d\.]', '', price)
DigitsAndDots(s) == SelectSeq(s, LAMBDA c : c \in DigitChars \cup {"."})

\* sanitize_price(price)
sanitize_price(price) ==
    IF price = PyNone THEN PyNone
    ELSE IF price.t = "str"
      THEN (IF IsDecimalText(DigitsAndDots(price.s))
            THEN Num(DecimalValue(DigitsAndDots(price.s))) ELSE PyNone)
    ELSE Num(price.n)

\* round(x, 1) of a value in hundredths, a tie going to the even tenth
Round1(n) ==
    LET tenths == n \div 10
        rest == n % 10
    IN IF rest > 5 \/ (rest = 5 /\ tenths % 2 = 1) THEN 10 * (tenths + 1) ELSE 10 * tenths

\* sanitize_rating(rating)
sanitize_rating(rating) ==
    IF rating = PyNone THEN PyNone
    ELSE IF ~FloatOk(rating) THEN PyNone
    ELSE IF FloatVal(rating) < 0 THEN Num(0)
    ELSE IF FloatVal(rating) > MaxRating THEN Num(MaxRating)
    ELSE Num(Round1(FloatVal(rating)))

\* the field assignments sanitize_product_data makes on its copy
SanitizedFields(sanitized) ==
    [sanitized EXCEPT
        !.title = IF Has(@) THEN sanitize_string(@) ELSE @,
        !.seller = IF Has(@) THEN sanitize_string(@) ELSE @,
        !.availability = IF Has(@) THEN sanitize_string(@) ELSE @,
        !.price = IF Has(@) THEN sanitize_price(@) ELSE @,
        !.rating = IF Has(@) THEN sanitize_rating(@) ELSE @,
        !.product_id = IF Has(@) /\ Truth(@) THEN Str(Strip(Upper(@.s))) ELSE @]

(***************************************************************************)
(* The sanitizers called on dict objects                                   *)
(***************************************************************************)
\* `sanitized = data`: no copy is made, the result is the argument itself
DictAlias(h, ref) == [heap |-> h, ref |-> ref]

\* data.copy(): a new dict object with the same keys and values
DictCopy(h, ref) == [heap |-> Append(h, h[ref]), ref |-> Len(h) + 1]

\* DataSanitizer.sanitize_product_data(data) on the object at ref
sanitize_product_data(h, ref) ==
    LET c == DictCopy(h, ref)
    IN [heap |-> [c.heap EXCEPT ![c.ref] = SanitizedFields(@)], ref |-> c.ref]

\* validator.clean_product_data(data) on the object at ref
clean_product_data_call(h, ref) ==
    LET c == DictCopy(h, ref)
    IN [heap |-> [c.heap EXCEPT ![c.ref] = clean_product_data(@)], ref |-> c.ref]

LongTitleBlank == Repeat("a", max_length - 1) \o <<" ", "b">>
SpacedTitle == <<" ", "E", " ", " ", "c", "h", "o", " ">>
SpacedSeller == <<"s", "\t", "1", " ">>
PriceWithSymbol == <<"R", "s", "1", ",", "2", "3", "4", ".", "5", "6">>
LowerAsin == <<" ", "b", "0", "8", "n", "5", "w", "r", "w", "n", "w", " ">>

SanitizeRecords ==
    {[EmptyRecord EXCEPT !.title = title, !.seller = seller, !.price = price,
                         !.rating = rating, !.product_id = pid,
                         !.availability = Str(InStock)] :
        title \in {Missing, PyNone, Str(SpacedTitle), Str(LongTitle), Str(LongTitleBlank)},
        seller \in {Missing, Str(SpacedSeller)},
        price \in {Missing, PyNone, Num(49900), Num(0), Str(PriceWithSymbol), Str(NotANumber)},
        rating \in {Missing, Num(437), Num(700), Num(-50), Str(NotANumber)},
        pid \in {Missing, Str(LowerAsin)}}

\* the client's record is object 1
ObjInit ==
    /\ heap = <<record>>
    /\ rets = << >>

\* the object handed to the next sanitizer call: the client's record, then
\* the result of the previous call
NextArg == IF rets = << >> THEN 1 ELSE rets[Len(rets)]

\* sanitized = DataSanitizer.sanitize_product_data(data), at most MaxSanitize
\* times in a row
SanitizeProductData ==
    /\ vwho \in {"idle", "sanitize_product_data"}
    /\ Len(rets) < MaxSanitize
    /\ heap' = sanitize_product_data(heap, NextArg).heap
    /\ rets' = Append(rets, sanitize_product_data(heap, NextArg).ref)
    /\ vwho' = "sanitize_product_data"
    /\ UNCHANGED <<record, vresult, hmVars, fetchVars, storeVars, mainVars, stageLog, parseVars, laterVars, lastVars>>

\* cleaned = clean_product_data(data), at most MaxSanitize times in a row
CleanProductData ==
    /\ vwho \in {"idle", "clean_product_data"}
    /\ Len(rets) < MaxSanitize
    /\ heap' = clean_product_data_call(heap, NextArg).heap
    /\ rets' = Append(rets, clean_product_data_call(heap, NextArg).ref)
    /\ vwho' = "clean_product_data"
    /\ UNCHANGED <<record, vresult, hmVars, fetchVars, storeVars, mainVars, stageLog, parseVars, laterVars, lastVars>>

\* validate_product(data) on the client's record
ValidateProductObject ==
    /\ vwho = "idle"
    /\ vresult' = validate_product(heap[1])
    /\ vwho' = "validate_product"
    /\ UNCHANGED <<record, heap, rets, hmVars, fetchVars, storeVars, mainVars, stageLog, parseVars, laterVars, lastVars>>

(***************************************************************************)
(* parser.py: extract_availability, extract_float_from_text;               *)
(* pipeline/transform.py: parse_price                                      *)
(***************************************************************************)
AvailabilityOutOfStock == <<"o", "u", "t", " ", "o", "f", " ", "s", "t", "o", "c", "k">>
AvailabilityInStock == <<"i", "n", " ", "s", "t", "o", "c", "k">>
AvailabilityAvailable == <<"a", "v", "a", "i", "l", "a", "b", "l", "e">>

\* the result of one element's text, or None when the loop moves on to the
\* next selector
ClassifyElementText(text) ==
    IF Contains(text, AvailabilityOutOfStock) THEN OutOfStock
    ELSE IF Contains(text, AvailabilityInStock) THEN InStock
    ELSE IF Contains(text, AvailabilityAvailable) THEN Available
    ELSE None

\* extract_availability(soup); soup is, per selector of availability_selectors,
\* the text of the element select_one finds or None
extract_availability(soup) ==
    LET text(i) == Lower(Strip(soup[i].s))
        hits == {i \in 1..Len(soup) :
                    soup[i] # PyNone /\ ClassifyElementText(text(i)) # None}
    IN IF hits = {} THEN Unknown
       ELSE ClassifyElementText(text(CHOOSE i \in hits : \A j \in hits : i <= j))

\* text.replace(',', '')
RemoveCommas(s) == SelectSeq(s, LAMBDA c : c # ",")

\* re.search(r'[\d,]+\.?\d*', s): the first match, None if there is none
FirstNumberMatch(s) ==
    LET starts == {i \in 1..Len(s) : s[i] \in DigitChars \cup {","}}
    IN IF starts = {} THEN None
       ELSE LET b == CHOOSE i \in starts : \A j \in starts : i <= j
                stop(from, class) ==
                    CHOOSE e \in (from - 1)..Len(s) :
                        /\ \A k \in from..e : s[k] \in class
                        /\ e < Len(s) => s[e + 1] \notin class
                e1 == stop(b, DigitChars \cup {","})
                e2 == IF e1 < Len(s) /\ s[e1 + 1] = "." THEN e1 + 1 ELSE e1
                e3 == stop(e2 + 1, DigitChars)
            IN SubSeq(s, b, e3)

\* float(text) of a match: the commas were removed beforehand, so the match
\* is digits with at most one point and float cannot fail on it
extract_float_from_text(text) ==
    LET match == FirstNumberMatch(RemoveCommas(text))
    IN IF match = None THEN PyNone
       ELSE IF IsDecimalText(match) THEN Num(DecimalValue(match))
       ELSE PyNone

\* an exception that leaves the function
RaisedValue(name) == [t |-> "raise", n |-> 0, s |-> name]
InvalidOperation == <<"I", "n", "v", "a", "l", "i", "d", "O", "p", "e", "r", "a", "t", "i", "o", "n">>

\* parse_price(price_text): Decimal(clean) raises decimal.InvalidOperation, an
\* ArithmeticError that `except (ValueError, TypeError)` does not catch
parse_price(price_text) ==
    IF price_text = << >> THEN PyNone
    ELSE LET clean == DigitsAndDots(price_text)
         IN IF clean = << >> THEN PyNone
            ELSE IF IsDecimalText(clean) THEN Num(DecimalValue(clean))
            ELSE RaisedValue(InvalidOperation)

\* status texts of the availability elements
StatusTexts ==
    {<<"I", "n", " ", "S", "t", "o", "c", "k", ".">>,
     <<"C", "u", "r", "r", "e", "n", "t", "l", "y", " ", "u", "n", "a", "v", "a", "i", "l", "a", "b", "l", "e", ".">>,
     <<"T", "e", "m", "p", "o", "r", "a", "r", "i", "l", "y", " ", "o", "u", "t", " ", "o", "f", " ", "s", "t", "o", "c", "k", ".">>,
     <<"A", "v", "a", "i", "l", "a", "b", "l", "e", " ", "f", "r", "o", "m", " ", "t", "h", "e", "s", "e", " ", "s", "e", "l", "l", "e", "r", "s", ".">>,
     <<"U", "s", "u", "a", "l", "l", "y", " ", "s", "h", "i", "p", "s", " ", "i", "n", " ", "2", " ", "d", "a", "y", "s">>,
     <<" ", "O", "n", "l", "y", " ", "2", " ", "l", "e", "f", "t", " ", "i", "n", " ", "s", "t", "o", "c", "k", " ">>}

NumSelectors == 3

\* what select_one finds for each selector: no element, or an element with text
Soups == [1..NumSelectors -> {PyNone} \cup {Str(x) : x \in StatusTexts}]

PriceChars == {"1", "5", ".", ",", "$", "R"}

\* price texts: every text of up to MaxPriceLen characters, and two longer ones
PriceTexts ==
    UNION {[1..n -> PriceChars] : n \in 0..MaxPriceLen}
        \cup {<<"$", "1", ",", "2", "3", "4", ".", "5", "6">>, <<"N", "/", "A">>}

\* extract_availability(soup)
ExtractAvailability ==
    /\ called = "idle"
    /\ ret' = extract_availability(arg)
    /\ called' = "extract_availability"
    /\ UNCHANGED <<arg, hmVars, fetchVars, storeVars, validateVars, mainVars, stageLog, objVars, laterVars, lastVars>>

\* extract_float_from_text(text)
ExtractFloatFromText ==
    /\ called = "idle"
    /\ ret' = extract_float_from_text(arg)
    /\ called' = "extract_float_from_text"
    /\ UNCHANGED <<arg, hmVars, fetchVars, storeVars, validateVars, mainVars, stageLog, objVars, laterVars, lastVars>>

\* parse_price(price_text)
ParsePrice ==
    /\ called = "idle"
    /\ ret' = parse_price(arg)
    /\ called' = "parse_price"
    /\ UNCHANGED <<arg, hmVars, fetchVars, storeVars, validateVars, mainVars, stageLog, objVars, laterVars, lastVars>>

(***************************************************************************)
(* pipeline/transform.py: transform_product_record                         *)
(***************************************************************************)
Min(a, b) == IF a <= b THEN a ELSE b

\* float('nan'): a float for isinstance, and false in every comparison
NaN == [t |-> "nan", n |-> 0, s |-> << >>]

\* 10 million, in hundredths
TransformMaxPrice == 1000000000
TransformMaxTitle == 500
TransformMaxSeller == 100
AttributeError == <<"A", "t", "t", "r", "i", "b", "u", "t", "e", "E", "r", "r", "o", "r">>
DefaultCurrency == <<"I", "N", "R">>
AvailabilityUnavailable == <<"u", "n", "a", "v", "a", "i", "l", "a", "b", "l", "e">>

\* data.get(key, '') followed by a str method: None or a number has no such
\* method
StrMethodFails(v) == GetOr(v, Str(<< >>)).t # "str"

\* lines 44-52: the price before the sanity check; an escaping exception of
\* parse_price is passed on
RawPrice(data) ==
    LET price_raw == Get(data.price)
    IN IF price_raw.t \in {"num", "nan"} THEN price_raw
       ELSE IF price_raw.t = "str" THEN parse_price(price_raw.s)
       ELSE IF Has(data.price_text)
         THEN (IF data.price_text.t = "str" THEN parse_price(data.price_text.s) ELSE PyNone)
       ELSE PyNone

\* lines 55-61: a price that is not positive or above 10 million becomes None
SanePrice(price) ==
    IF price.t = "num" /\ (price.n <= 0 \/ price.n > TransformMaxPrice) THEN PyNone
    ELSE price

\* lines 69-75
CanonicalAvailability(availability_raw) ==
    IF Contains(availability_raw, AvailabilityOutOfStock)
         \/ Contains(availability_raw, AvailabilityUnavailable) THEN OutOfStock
    ELSE IF Contains(availability_raw, AvailabilityInStock) THEN InStock
    ELSE Unknown

\* transform_product_record(raw_record) for a dict: the transformed record,
\* None, or the exception that escapes (the keys source_url, scraped_at,
\* transformed_at and _raw_id, copied or stamped, are left out)
transform_product_record(data) ==
    LET product_id == IF Truth(Get(data.product_id)) THEN data.product_id ELSE Get(data.asin)
        raw_price == RawPrice(data)
        stripped == Strip(GetOr(data.title, Str(<< >>)).s)
        title == IF Len(stripped) > TransformMaxTitle
                 THEN SubSeq(stripped, 1, TransformMaxTitle - 3) \o Ellipsis
                 ELSE stripped
        availability == CanonicalAvailability(Lower(GetOr(data.availability, Str(<< >>)).s))
        seller == Strip(GetOr(data.seller, Str(<< >>)).s)
    IN IF ~Truth(product_id) THEN PyNone
       ELSE IF raw_price.t = "raise" THEN raw_price
       ELSE IF StrMethodFails(data.title) \/ StrMethodFails(data.availability)
                \/ StrMethodFails(data.seller) THEN RaisedValue(AttributeError)
       ELSE [product_id |-> Str(Strip(Upper(product_id.s))),
             title |-> Str(title),
             price |-> IF availability = OutOfStock THEN PyNone ELSE SanePrice(raw_price),
             currency |-> Str(DefaultCurrency),
             availability |-> availability,
             seller |-> Str(SubSeq(seller, 1, Min(Len(seller), TransformMaxSeller))),
             rating |-> Get(data.rating)]

\* raw records as the extract step hands them over
RawRecords ==
    {[product_id |-> pid, asin |-> asin, price |-> price, price_text |-> price_text,
      title |-> title, availability |-> availability, seller |-> Str(SpacedSeller),
      rating |-> rating] :
        pid \in {Missing, Str(LowerAsin)},
        asin \in {Missing, Str(GoodAsin)},
        price \in {Missing, PyNone, Num(49900), Num(0), Num(-100), Num(TransformMaxPrice),
                   Num(TransformMaxPrice + 1), NaN,
                   Str(<<"$", "1", ",", "2", "3", "4", ".", "5", "6">>), Str(NotANumber), Str(<<"1", ".", "5", ".", "1">>)},
        price_text \in {Missing, Str(<<"$", "9", "9", ".", "9", "9">>)},
        title \in {Missing, PyNone, Str(SpacedTitle), Str(LongTitle)},
        availability \in {Missing, PyNone, Str(InStock), Str(OutOfStock),
                          Str(<<"I", "n", " ", "S", "t", "o", "c", "k", ".">>), Str(<<"C", "u", "r", "r", "e", "n", "t", "l", "y", " ", "u", "n", "a", "v", "a", "i", "l", "a", "b", "l", "e", ".">>),
                          Str(<<"T", "e", "m", "p", "o", "r", "a", "r", "i", "l", "y", " ", "o", "u", "t", " ", "o", "f", " ", "s", "t", "o", "c", "k", ".">>), Str(<<"S", "h", "i", "p", "s", " ", "s", "o", "o", "n">>)},
        rating \in {Missing, Num(570)}}

\* transform_product_record(raw_record)
TransformProductRecord ==
    /\ called = "idle"
    /\ ret' = transform_product_record(arg)
    /\ called' = "transform_product_record"
    /\ UNCHANGED <<arg, hmVars, fetchVars, storeVars, validateVars, mainVars, stageLog, objVars, laterVars, lastVars>>

(***************************************************************************)
(* pipeline/load_raw.py: load_to_raw_table                                 *)
(***************************************************************************)
\* the names bound at module level in load_raw.py (its imports and its
\* definitions); load_to_raw_file imports json inside its own body only
LoadRawGlobals ==
    {"logging", "List", "Dict", "Any", "datetime", "uuid", "logger",
     "load_to_raw_table", "load_to_raw_file"}

ProductIds == {"P1", "P2", "P3"}

Batches == UNION {[1..n -> ProductIds] : n \in 0..MaxBatch}

\* the number of calls of db_conn.execute that returned
Succeeded(calls) == Len(SelectSeq(calls, LAMBDA c : c.ok))

\* `if not data: return 0`, otherwise the loop starts with the counter at 0
LoadStart ==
    /\ lstate = "idle"
    /\ IF raw_data = << >>
         THEN lstate' = "returned" /\ lret' = 0 /\ lpos' = 0
         ELSE lstate' = "loop" /\ lpos' = 1 /\ UNCHANGED lret
    /\ records_inserted' = 0
    /\ UNCHANGED <<raw_data, stamped, executed>>
    /\ UNCHANGED <<hmVars, fetchVars, storeVars, validateVars, mainVars, stageLog, objVars, parseVars, finderVars, lastVars>>

\* one turn of the loop: the record is stamped, the parameters are built, which
\* evaluates the global name json, and db_conn.execute is called; any
\* exception, the NameError of an unbound global included, is caught and the
\* loop goes on with the next record
LoadRecord ==
    /\ lstate = "loop"
    /\ lpos <= Len(raw_data)
    /\ stamped' = stamped \cup {lpos}
    /\ IF "json" \in LoadRawGlobals
         THEN \E ok \in BOOLEAN :
                /\ executed' = Append(executed, [id |-> raw_data[lpos], ok |-> ok])
                /\ records_inserted' = IF ok THEN records_inserted + 1
                                       ELSE records_inserted
         ELSE UNCHANGED <<executed, records_inserted>>
    /\ lpos' = lpos + 1
    /\ UNCHANGED <<raw_data, lstate, lret>>
    /\ UNCHANGED <<hmVars, fetchVars, storeVars, validateVars, mainVars, stageLog, objVars, parseVars, finderVars, lastVars>>

\* `return records_inserted` after the last record
LoadReturn ==
    /\ lstate = "loop"
    /\ lpos > Len(raw_data)
    /\ lstate' = "returned"
    /\ lret' = records_inserted
    /\ UNCHANGED <<raw_data, lpos, records_inserted, stamped, executed>>
    /\ UNCHANGED <<hmVars, fetchVars, storeVars, validateVars, mainVars, stageLog, objVars, parseVars, finderVars, lastVars>>

(***************************************************************************)
(* utils/find_valid_asin.py: UltraSafeASINFinder and main                  *)
(***************************************************************************)
max_requests == 25
NumCategories == 15
TermsPerCategory == 2
max_attempts == 2
max_categories == 8
max_results == 4
MinRemaining == 5
MaxValidated == 10

\* what one search request can come to: a page with products, a page without,
\* a page with a bot-detection phrase, a status code, or an exception
SearchOutcomes ==
    {"products", "no_products", "bot_detection", "503", "429", "404",
     "other_status", "Timeout", "ConnectionError", "Exception"}

\* the outcomes after which request_count is set to max_requests
StopsAllRequests == {"bot_detection", "503", "429"}

\* the outcomes the attempt loop retries
Retried == {"other_status", "Timeout"}

\* what one validation request can come to
ValidationOutcomes ==
    {"valid", "no_title", "robot_check", "bot_detection", "503", "429",
     "other_status", "Exception"}

\* the responses that signal blocking: the two status codes and a page with a
\* bot-detection phrase ("robot check" is one of them)
SignalsBlocking == {"bot_detection", "robot_check", "503", "429"}

\* the end of the body of `for category, searches in ...` once the loop over
\* the search terms is left, with the counter at count and found saying
\* whether category_products is non-empty
CategoryEnd(count, found) ==
    /\ category_count' = IF found THEN category_count + 1 ELSE category_count
    /\ IF count >= max_requests
         THEN fpc' = "phase1" /\ UNCHANGED category
         ELSE fpc' = "category" /\ category' = category + 1
    /\ term' = 1
    /\ category_products' = FALSE

\* the top of the loop over the categories
FinderNextCategory ==
    /\ fpc = "category"
    /\ IF \/ category > NumCategories
          \/ category_count >= max_categories
          \/ request_count >= max_requests
         THEN fpc' = "phase1"
         ELSE fpc' = "term"
    /\ term' = 1
    /\ category_products' = FALSE
    /\ UNCHANGED <<request_count, requests_issued, category, search_attempt, category_count,
                   unique_products, to_validate, vidx, blocked>>
    /\ UNCHANGED <<hmVars, fetchVars, storeVars, validateVars, mainVars, stageLog, objVars, parseVars, loadVars, lastVars>>

\* the top of the loop over searches[:2], up to the entry of
\* search_with_ultra_safety, whose own test of the limit returns []
FinderNextTerm ==
    /\ fpc = "term"
    /\ IF term > TermsPerCategory \/ request_count >= max_requests
         THEN /\ CategoryEnd(request_count, category_products)
              /\ UNCHANGED search_attempt
         ELSE /\ fpc' = "attempt"
              /\ search_attempt' = 1
              /\ UNCHANGED <<category, term, category_count, category_products>>
    /\ UNCHANGED <<request_count, requests_issued, unique_products, to_validate, vidx, blocked>>
    /\ UNCHANGED <<hmVars, fetchVars, storeVars, validateVars, mainVars, stageLog, objVars, parseVars, loadVars, lastVars>>

\* one attempt of search_with_ultra_safety: the counter is incremented, the
\* request is sent, and the outcome either starts the next attempt or returns
\* to main, which extends category_products and tests the limit
FinderSearchRequest ==
    /\ fpc = "attempt"
    /\ requests_issued' = requests_issued + 1
    /\ \E outcome \in SearchOutcomes, new \in 0..max_results :
        LET count == IF outcome \in StopsAllRequests THEN max_requests
                     ELSE request_count + 1
            found == outcome = "products"
        IN /\ found => (unique_products = 0 => new >= 1)
           /\ ~found => new = 0
           /\ request_count' = count
           /\ blocked' = (blocked \/ outcome \in SignalsBlocking)
           /\ IF outcome \in Retried /\ search_attempt < max_attempts
                THEN /\ search_attempt' = search_attempt + 1
                     /\ UNCHANGED <<fpc, category, term, category_count,
                                    category_products, unique_products>>
                ELSE /\ unique_products' = Min(unique_products + new, MaxValidated)
                     /\ search_attempt' = 1
                     /\ IF count >= max_requests
                          THEN CategoryEnd(count, category_products \/ found)
                          ELSE /\ fpc' = "term"
                               /\ term' = term + 1
                               /\ category_products' = (category_products \/ found)
                               /\ UNCHANGED <<category, category_count>>
    /\ UNCHANGED <<to_validate, vidx>>
    /\ UNCHANGED <<hmVars, fetchVars, storeVars, validateVars, mainVars, stageLog, objVars, parseVars, loadVars, lastVars>>

\* after the search phase: nothing found ends main, fewer than five requests
\* left skips the validation, otherwise to_validate is computed
FinderPhase1End ==
    /\ fpc = "phase1"
    /\ LET remaining == max_requests - request_count
       IN IF unique_products = 0 \/ remaining < MinRemaining
            THEN fpc' = "done" /\ UNCHANGED to_validate
            ELSE /\ fpc' = "validate"
                 /\ to_validate' = Min(Min(unique_products, remaining - 1), MaxValidated)
    /\ vidx' = 1
    /\ UNCHANGED <<request_count, requests_issued, category, term, search_attempt,
                   category_count, category_products, unique_products, blocked>>
    /\ UNCHANGED <<hmVars, fetchVars, storeVars, validateVars, mainVars, stageLog, objVars, parseVars, loadVars, lastVars>>

\* one turn of the validation loop
FinderValidateRequest ==
    /\ fpc = "validate"
    /\ IF vidx > to_validate \/ request_count >= max_requests - 1
         THEN fpc' = "done" /\ UNCHANGED <<request_count, requests_issued, vidx, blocked>>
         ELSE /\ request_count' = request_count + 1
              /\ requests_issued' = requests_issued + 1
              /\ \E outcome \in ValidationOutcomes :
                    /\ blocked' = (blocked \/ outcome \in SignalsBlocking)
                    /\ IF outcome = "robot_check"
                         THEN fpc' = "done" /\ UNCHANGED vidx
                         ELSE vidx' = vidx + 1 /\ UNCHANGED fpc
    /\ UNCHANGED <<category, term, search_attempt, category_count, category_products,
                   unique_products, to_validate>>
    /\ UNCHANGED <<hmVars, fetchVars, storeVars, validateVars, mainVars, stageLog, objVars, parseVars, loadVars, lastVars>>

(***************************************************************************)
(* amazon_scraper.py: the configuration, the attempts of scrape_with_retry *)
(* and its backoff                                                         *)
(***************************************************************************)
\* request_delay values of the configuration, in tenths of a second
RequestDelays == {5, 10, 20, 25}

Pow2(n) == IF n <= 0 THEN 1 ELSE 2 ^ n

\* a slip: the delay grows by the base, not by doubling
BackoffLinear(delay, k) == delay * k

\* backoff_seconds = self.request_delay * (2 ** (attempt - 1))
BackoffSeconds(delay, k) == delay * Pow2(k - 1)

Event(kind, n) == [e |-> kind, n |-> n]

\* scrape_multiple_products takes the next identifier and calls
\* scrape_with_retry(product_id, max_attempts=3); a direct caller of
\* scrape_with_retry has chosen max_attempts itself
ConfiguredStartItem ==
    /\ retry_pc = "batch"
    /\ item <= n_items
    /\ retry_max_attempts' = IF via_batch THEN BatchMaxAttempts ELSE retry_max_attempts
    /\ retry_attempt' = 1
    /\ retry_result' = "pending"
    /\ events' = << >>
    /\ retry_pc' = "attempt"
    /\ UNCHANGED <<max_retries, request_delay, via_batch, n_items, item>>
    /\ UNCHANGED <<hmVars, fetchVars, storeVars, validateVars, mainVars, stageLog, objVars, parseVars, laterVars, runVars>>

\* html = self.scrape_product(product_id): a body, or a failure (None or '')
ConfiguredAttempt ==
    /\ retry_pc = "attempt"
    /\ events' = Append(events, Event("attempt", retry_attempt))
    /\ \E ok \in BOOLEAN :
         IF ok THEN /\ retry_result' = "html"
                    /\ retry_pc' = "batch"
                    /\ item' = item + 1
               ELSE /\ retry_pc' = "failed"
                    /\ UNCHANGED <<retry_result, item>>
    /\ UNCHANGED <<max_retries, request_delay, via_batch, n_items,
                   retry_max_attempts, retry_attempt>>
    /\ UNCHANGED <<hmVars, fetchVars, storeVars, validateVars, mainVars, stageLog, objVars, parseVars, laterVars, runVars>>

\* `if attempt < max_attempts:` rotate_user_agent(), then time.sleep(backoff_seconds)
ConfiguredBackoff ==
    /\ retry_pc = "failed"
    /\ retry_attempt < retry_max_attempts
    /\ events' = events \o << Event("rotate", 0),
                              Event("sleep", BackoffSeconds(request_delay, retry_attempt)) >>
    /\ retry_attempt' = retry_attempt + 1
    /\ retry_pc' = "attempt"
    /\ UNCHANGED <<max_retries, request_delay, via_batch, n_items, item,
                   retry_max_attempts, retry_result>>
    /\ UNCHANGED <<hmVars, fetchVars, storeVars, validateVars, mainVars, stageLog, objVars, parseVars, laterVars, runVars>>

\* the loop is exhausted: `return None`
ConfiguredExhausted ==
    /\ retry_pc = "failed"
    /\ retry_attempt >= retry_max_attempts
    /\ retry_result' = "none"
    /\ retry_pc' = "batch"
    /\ item' = item + 1
    /\ UNCHANGED <<max_retries, request_delay, via_batch, n_items,
                   retry_max_attempts, retry_attempt, events>>
    /\ UNCHANGED <<hmVars, fetchVars, storeVars, validateVars, mainVars, stageLog, objVars, parseVars, laterVars, runVars>>

\* every identifier has been fetched
ConfiguredReturn ==
    /\ retry_pc = "batch"
    /\ item > n_items
    /\ retry_pc' = "done"
    /\ UNCHANGED <<max_retries, request_delay, via_batch, n_items, item,
                   retry_max_attempts, retry_attempt, retry_result, events>>
    /\ UNCHANGED <<hmVars, fetchVars, storeVars, validateVars, mainVars, stageLog, objVars, parseVars, laterVars, runVars>>

(***************************************************************************)
(* pipeline/pipeline_runner.py: PipelineRunner.run;                        *)
(* pipeline/quality_checks.py: run_quality_checks                          *)
(***************************************************************************)
\* the checks run_quality_checks can add to failed_checks
QualityChecks == {"missing_product_ids", "suspicious_prices", "duplicate_ids"}

\* checks['passed'] = len(checks['failed_checks']) == 0
QualityVerdict(failed_checks) == IF failed_checks = {} THEN "passed" ELSE "failed"

\* a slip: run reports success whatever the quality checks said
RunReturnsTrue(quality_passed) == "True"

\* `return quality_passed`
RunReturnValue(quality_passed) == IF quality_passed = "passed" THEN "True" ELSE "False"

\* `except Exception`: the error is recorded and run returns False
RunExcept ==
    /\ run_ret' = "False"
    /\ run_pc' = "done"

\* load_to_clean_tables(transformed_data): it returns a count or raises
LoadCleanOutcomes == {"count", "raise"}

\* step 1: extract_live or extract_product_data; nothing extracted ends run
RunExtract ==
    /\ run_pc = "extract"
    /\ run_phases' = Append(run_phases, "extract")
    /\ \E raised \in BOOLEAN, count \in 0..MaxRaw :
         IF raised
           THEN RunExcept /\ UNCHANGED run_raw
           ELSE /\ run_raw' = count
                /\ IF count = 0
                     THEN run_ret' = "False" /\ run_pc' = "done"
                     ELSE run_pc' = "load_raw" /\ UNCHANGED run_ret
    /\ UNCHANGED <<run_db, run_transformed, run_quality>>
    /\ UNCHANGED <<hmVars, fetchVars, storeVars, validateVars, mainVars, stageLog, objVars, parseVars, laterVars, backoffVars>>

\* step 2: load_to_raw_table when there is a connection; it catches the
\* errors of its records itself
RunLoadRaw ==
    /\ run_pc = "load_raw"
    /\ run_phases' = IF run_db THEN Append(run_phases, "load_raw") ELSE run_phases
    /\ run_pc' = "transform"
    /\ UNCHANGED <<run_db, run_raw, run_transformed, run_quality, run_ret>>
    /\ UNCHANGED <<hmVars, fetchVars, storeVars, validateVars, mainVars, stageLog, objVars, parseVars, laterVars, backoffVars>>

\* step 3: transform_batch keeps the records transform_product_record
\* returns, and an exception of transform_product_record escapes it; nothing
\* transformed ends run
RunTransform ==
    /\ run_pc = "transform"
    /\ run_phases' = Append(run_phases, "transform")
    /\ \E raised \in BOOLEAN, count \in 0..run_raw :
         IF raised
           THEN RunExcept /\ UNCHANGED run_transformed
           ELSE /\ run_transformed' = count
                /\ IF count = 0
                     THEN run_ret' = "False" /\ run_pc' = "done"
                     ELSE run_pc' = "quality" /\ UNCHANGED run_ret
    /\ UNCHANGED <<run_db, run_raw, run_quality>>
    /\ UNCHANGED <<hmVars, fetchVars, storeVars, validateVars, mainVars, stageLog, objVars, parseVars, laterVars, backoffVars>>

\* step 4: run_quality_checks; a failure is logged and run goes on
RunQualityChecks ==
    /\ run_pc = "quality"
    /\ run_phases' = Append(run_phases, "quality")
    /\ \E failed_checks \in SUBSET QualityChecks :
         run_quality' = QualityVerdict(failed_checks)
    /\ run_pc' = "load_clean"
    /\ UNCHANGED <<run_db, run_raw, run_transformed, run_ret>>
    /\ UNCHANGED <<hmVars, fetchVars, storeVars, validateVars, mainVars, stageLog, objVars, parseVars, laterVars, backoffVars>>

\* step 5: load_to_clean_tables when there is a connection, then
\* `return quality_passed`
RunLoadClean ==
    /\ run_pc = "load_clean"
    /\ IF run_db
         THEN /\ run_phases' = Append(run_phases, "load_clean")
              /\ \E outcome \in LoadCleanOutcomes :
                    IF outcome = "raise" THEN RunExcept
                    ELSE run_ret' = RunReturnValue(run_quality) /\ run_pc' = "done"
         ELSE /\ run_ret' = RunReturnValue(run_quality)
              /\ run_pc' = "done"
              /\ UNCHANGED run_phases
    /\ UNCHANGED <<run_db, run_raw, run_transformed, run_quality>>
    /\ UNCHANGED <<hmVars, fetchVars, storeVars, validateVars, mainVars, stageLog, objVars, parseVars, laterVars, backoffVars>>

(***************************************************************************)
(* validator.py: validate_batch called on a list of records                *)
(***************************************************************************)
\* parsed records: two that validate_product accepts and three it rejects
BatchRecords ==
    {[EmptyRecord EXCEPT !.product_id = Str(GoodAsin), !.price = Num(49900),
                         !.title = Str(GoodTitle)],
     [EmptyRecord EXCEPT !.product_id = Str(GoodAsin), !.title = Str(GoodTitle),
                         !.rating = Num(450)],
     [EmptyRecord EXCEPT !.product_id = Str(BadAsin), !.price = Num(49900),
                         !.title = Str(GoodTitle)],
     [EmptyRecord EXCEPT !.product_id = Str(GoodAsin), !.price = Num(49900),
                         !.title = Str(ShortTitle)],
     [EmptyRecord EXCEPT !.product_id = Str(GoodAsin), !.title = Str(GoodTitle),
                         !.availability = Str(InStock)]}

ProductLists == UNION {[1..n -> BatchRecords] : n \in 0..MaxProducts}

\* validate_batch(products)
ValidateBatch ==
    /\ called = "idle"
    /\ ret' = validate_batch(arg)
    /\ called' = "validate_batch"
    /\ UNCHANGED <<arg, hmVars, fetchVars, storeVars, validateVars, mainVars, stageLog, objVars, laterVars, lastVars>>

(***************************************************************************)
(* run_scraper.main                                                        *)
(***************************************************************************)
\* the identifier as text
AsinText ==
    [id \in Ids |->
        IF id = "B08N5WRWNW" THEN <<"B", "0", "8", "N", "5", "W", "R", "W", "N", "W">>
        ELSE <<"B", "0", "C", "H", "X", "1", "W", "1", "X", "Y">>]

\* the keys of html_results in the opposite of their insertion order
ResultKeysReversed(ids) ==
    LET firsts == {i \in 1..Len(ids) : \A j \in 1..(i - 1) : ids[j] # ids[i]}
        rank(i) == Cardinality({j \in firsts : j >= i})
    IN [k \in 1..Cardinality(firsts) |-> ids[CHOOSE i \in firsts : rank(i) = k]]

\* html_results.items(): a dict keeps its keys in the order of their first
\* insertion, here the order of first occurrence in the scraped list
ResultKeys(ids) ==
    LET firsts == {i \in 1..Len(ids) : \A j \in 1..(i - 1) : ids[j] # ids[i]}
        rank(i) == Cardinality({j \in firsts : j <= i})
    IN [k \in 1..Cardinality(firsts) |-> ids[CHOOSE i \in firsts : rank(i) = k]]

\* position in the supplied list at which an identifier first occurs
FirstPos(ids, id) == CHOOSE i \in 1..Len(ids) : ids[i] = id /\ \A j \in 1..(i - 1) : ids[j] # id

\* AmazonParser.parse_product(html, asin): a record for the identifier, absent
\* only for empty html; what the page yields (here the price) varies
ParsedRecords(body, asin) ==
    IF body = EmptyBody THEN {PyNone}
    ELSE {[EmptyRecord EXCEPT !.product_id = Str(AsinText[asin]), !.title = Str(GoodTitle),
                              !.price = price, !.availability = Str(InStock)] :
            price \in {Missing, Num(49900)}}

\* the supplied position of a parsed record
PosOfRecord(ids, rec) ==
    FirstPos(ids, CHOOSE id \in Ids : AsinText[id] = rec.product_id.s)

\* one log entry per record of a list, in list order
StageEvents(stage, ids, recs) ==
    [i \in 1..Len(recs) |-> <<stage, PosOfRecord(ids, recs[i])>>]

MainIdle ==
    /\ asins = << >>
    /\ mpc = "idle"
    /\ html_results = << >>
    /\ pidx = 1
    /\ parsed_results = << >>
    /\ valid_products = << >>
    /\ invalid_products = << >>
    /\ saved = << >>
    /\ stageLog = << >>

\* main has resolved the identifiers
MainInit ==
    /\ asins \in IdLists
    /\ mpc = "start"
    /\ html_results = << >>
    /\ pidx = 1
    /\ parsed_results = << >>
    /\ valid_products = << >>
    /\ invalid_products = << >>
    /\ saved = << >>
    /\ stageLog = << >>

\* `if not asins: return`
MainNoAsins ==
    /\ mpc = "start"
    /\ asins = << >>
    /\ mpc' = "end"
    /\ UNCHANGED <<asins, html_results, pidx, parsed_results, valid_products,
                   invalid_products, saved, stageLog>>
    /\ UNCHANGED <<hmVars, fetchVars, storeVars, validateVars, restVars>>

\* html_results = scraper.scrape_multiple(asins): the batch scrape is entered
MainScrape ==
    /\ mpc = "start"
    /\ asins # << >>
    /\ product_ids' = asins
    /\ tried' = [i \in 1..Len(asins) |-> 0]
    /\ idx' = 1
    /\ results' = << >>
    /\ pc' = "batch"
    /\ mpc' = "scrape"
    /\ UNCHANGED <<attempt, html, resp, rotatedInAttempt, cursor0, okSeen, firstOk, allCaptcha>>
    /\ UNCHANGED <<asins, html_results, pidx, parsed_results, valid_products,
                   invalid_products, saved, stageLog>>
    /\ UNCHANGED <<hmVars, storeVars, validateVars, restVars>>

\* the batch scrape has returned its dict
MainScrapeReturn ==
    /\ mpc = "scrape"
    /\ pc = "done"
    /\ html_results' = results
    /\ parsed_results' = << >>
    /\ pidx' = 1
    /\ mpc' = "parse"
    /\ UNCHANGED <<asins, valid_products, invalid_products, saved, stageLog>>
    /\ UNCHANGED <<hmVars, fetchVars, storeVars, validateVars, restVars>>

\* the parse loop: `if not html: continue`
MainParseSkip ==
    /\ mpc = "parse"
    /\ pidx <= Len(ResultKeys(product_ids))
    /\ ~Truthy(html_results[ResultKeys(product_ids)[pidx]])
    /\ pidx' = pidx + 1
    /\ UNCHANGED <<asins, mpc, html_results, parsed_results, valid_products,
                   invalid_products, saved, stageLog>>
    /\ UNCHANGED <<hmVars, fetchVars, storeVars, validateVars, restVars>>

\* the parse loop: parse_product, `if product_data:` append
MainParseItem ==
    /\ mpc = "parse"
    /\ pidx <= Len(ResultKeys(product_ids))
    /\ LET asin == ResultKeys(product_ids)[pidx]
       IN /\ Truthy(html_results[asin])
          /\ \E product_data \in ParsedRecords(html_results[asin], asin) :
               /\ parsed_results' =
                    IF product_data # PyNone THEN Append(parsed_results, product_data)
                    ELSE parsed_results
               /\ stageLog' = Append(stageLog, <<"parse", FirstPos(asins, asin)>>)
    /\ pidx' = pidx + 1
    /\ UNCHANGED <<asins, mpc, html_results, valid_products, invalid_products, saved>>
    /\ UNCHANGED <<hmVars, fetchVars, storeVars, validateVars, restVars>>

\* valid_products, invalid_products = validate_batch(parsed_results)
MainValidateBatch ==
    /\ mpc = "parse"
    /\ pidx > Len(ResultKeys(product_ids))
    /\ valid_products' = validate_batch(parsed_results)[1]
    /\ invalid_products' = validate_batch(parsed_results)[2]
    /\ stageLog' = stageLog \o StageEvents("validate", asins, parsed_results)
    /\ mpc' = "clean"
    /\ UNCHANGED <<asins, html_results, pidx, parsed_results, saved>>
    /\ UNCHANGED <<hmVars, fetchVars, storeVars, validateVars, restVars>>

\* valid_products = [clean_product_data(p) for p in valid_products]
MainClean ==
    /\ mpc = "clean"
    /\ valid_products' = [i \in 1..Len(valid_products) |-> clean_product_data(valid_products[i])]
    /\ stageLog' = stageLog \o StageEvents("sanitize", asins, valid_products)
    /\ mpc' = "save"
    /\ UNCHANGED <<asins, html_results, pidx, parsed_results, invalid_products, saved>>
    /\ UNCHANGED <<hmVars, fetchVars, storeVars, validateVars, restVars>>

\* `if valid_products:` json.dump(valid_products, f)
MainSave ==
    /\ mpc = "save"
    /\ saved' = IF valid_products # << >> THEN valid_products ELSE saved
    /\ stageLog' = stageLog \o StageEvents("persist", asins, valid_products)
    /\ mpc' = "end"
    /\ UNCHANGED <<asins, html_results, pidx, parsed_results, valid_products, invalid_products>>
    /\ UNCHANGED <<hmVars, fetchVars, storeVars, validateVars, restVars>>

(***************************************************************************)
(* validator/business_rules.py: BusinessRuleValidator, and its adapter in  *)
(* validator/product_validator.py                                          *)
(***************************************************************************)
\* self.price_thresholds, in hundredths
min_price == 1
max_price == 100000000
suspicious_price == 99999999

\* the moment of the call (datetime.now()) and 24 hours, in hundredths of a
\* second from an origin a little more than eleven days back
Now == 100000000
MaxAge == 8640000

business_required_fields == <<"product_id", "title", "price", "timestamp">>

\* an exception leaving the call
Raised(name) == << Msg("raise", name) >>

\* validate_required_fields(data)
validate_required_fields(data) ==
    LET missing_fields ==
            SelectSeq(business_required_fields,
                      LAMBDA field : ~Has(data[field]) \/ data[field] = PyNone)
    IN IF missing_fields # << >>
         THEN << Msg(missing_fields[1], "Missing required fields") >>
         ELSE << >>

\* validate_price_bounds(data)
validate_price_bounds(data) ==
    LET price == Get(data.price)
    IN IF price = PyNone THEN << >>
       ELSE IF ~FloatOk(price)
         THEN << Msg("price", "Invalid price for business validation") >>
       ELSE IF FloatVal(price) = suspicious_price
         THEN << Msg("price", "Suspicious price (placeholder value)") >>
       ELSE IF FloatVal(price) < min_price THEN << Msg("price", "Price below minimum") >>
       ELSE IF FloatVal(price) > max_price THEN << Msg("price", "Price above maximum") >>
       ELSE << >>

\* validate_product_availability(data): data.get('availability', '').lower()
\* raises AttributeError when the value is not a string
validate_product_availability(data) ==
    LET value == GetOr(data.availability, Str(<< >>))
        price == Get(data.price)
    IN IF value.t # "str" THEN Raised("AttributeError")
       ELSE IF Lower(value.s) \in {InStock, Available} /\ price = PyNone
         THEN << Msg("availability", "In-stock product must have a price") >>
       ELSE << >>

\* validate_data_freshness(data)
validate_data_freshness(data) ==
    LET timestamp == Get(data.timestamp)
    IN IF ~Truth(timestamp)
         THEN << Msg("timestamp", "Timestamp missing for freshness check") >>
       ELSE IF ~FloatOk(timestamp)
         THEN << Msg("timestamp", "Invalid timestamp for freshness check") >>
       ELSE IF Now - FloatVal(timestamp) > MaxAge
         THEN << Msg("timestamp", "Data is too old") >>
       ELSE << >>

\* BusinessValidationAdapter.validate(data): the first failing rule's error
BusinessValidationAdapter_validate(data) ==
    IF validate_required_fields(data) # << >> THEN validate_required_fields(data)
    ELSE IF validate_price_bounds(data) # << >> THEN validate_price_bounds(data)
    ELSE IF validate_product_availability(data) # << >>
      THEN validate_product_availability(data)
    ELSE validate_data_freshness(data)

Unavailable == <<"u","n","a","v","a","i","l","a","b","l","e">>
InStockCapitals == <<"I","n","_","S","t","o","c","k">>
FreshTimestamp == Now - 360000
StaleTimestamp == Now - 2 * MaxAge

\* records that differ in title, price, availability and timestamp; the price
\* is carried under both of its keys (price, current_price)
BusinessRecords ==
    {[EmptyRecord EXCEPT !.product_id = Str(GoodAsin), !.asin = Str(GoodAsin),
                         !.url = Str(GoodUrl), !.title = title, !.price = price,
                         !.current_price = price, !.availability = availability,
                         !.timestamp = timestamp] :
        title \in {Str(GoodTitle), Str(ShortTitle)},
        price \in {Missing, PyNone, Num(49900)},
        availability \in {Missing, PyNone, Str(InStock), Str(Available), Str(OutOfStock),
                          Str(Unavailable), Str(InStockCapitals)},
        timestamp \in {Str(GoodTimestamp), Num(FreshTimestamp), Num(StaleTimestamp)}}

\* BusinessRuleValidator().validate_product_availability(record)
ValidateProductAvailability ==
    /\ vwho = "idle"
    /\ vresult' = validate_product_availability(record)
    /\ vwho' = "validate_product_availability"
    /\ UNCHANGED <<record, hmVars, fetchVars, storeVars, mainVars, stageLog, restVars>>

\* BusinessValidationAdapter(...).validate(record)
BusinessValidate ==
    /\ vwho = "idle"
    /\ vresult' = BusinessValidationAdapter_validate(record)
    /\ vwho' = "BusinessValidationAdapter"
    /\ UNCHANGED <<record, hmVars, fetchVars, storeVars, mainVars, stageLog, restVars>>

(***************************************************************************)
(* Identifier validation on its own                                        *)
(***************************************************************************)
\* identifier texts: a seven-character head (mixed, all digits, all letters)
\* followed by two to MaxTail characters, the empty text, and a valid
\* identifier with a blank before or after it
AsinHeads ==
    {<<"B", "0", "8", "N", "5", "W", "R">>, <<"1", "2", "3", "4", "5", "6", "0">>,
     <<"A", "B", "C", "D", "E", "F", "G">>}
AsinTailChars == {"A", "7", "a", "-", "\n"}
AsinTails == UNION {[1..n -> AsinTailChars] : n \in 2..MaxTail}
AsinInputs ==
    {h \o t : h \in AsinHeads, t \in AsinTails}
        \cup {<< >>, <<" ">> \o GoodAsin, GoodAsin \o <<" ">>}

\* records that carry the identifier under both keys and are valid otherwise
AsinRecords ==
    {[EmptyRecord EXCEPT !.product_id = Str(a), !.asin = Str(a), !.title = Str(GoodTitle)] :
        a \in AsinInputs}

\* field_validators.validate_asin(record['asin'], rules)
ValidateAsin ==
    /\ vwho = "idle"
    /\ vresult' = validate_asin(record.asin)
    /\ vwho' = "validate_asin"
    /\ UNCHANGED <<record, hmVars, fetchVars, storeVars, mainVars, stageLog, restVars>>

(***************************************************************************)
(* Specifications                                                          *)
(***************************************************************************)
\* a batch fetch: scrape_multiple_products on a fresh AmazonScraper
Init == HMInit /\ FetchInit /\ StoreIdle /\ ValidateIdle /\ MainIdle /\ RestIdle

Next ==
    \/ StartItem
    \/ scrape_product
    \/ RetryReturnHtml
    \/ RetryBackoff
    \/ RetryExhausted
    \/ BatchReturn

Spec == Init /\ [][Next]_vars

\* a HeaderManager whose two methods are called in any order
InitHM == HMInit /\ FetchIdle /\ StoreIdle /\ ValidateIdle /\ MainIdle /\ RestIdle

NextHM == get_headers \/ rotate_user_agent

SpecHM == InitHM /\ [][NextHM]_vars

\* a sequence of update_product calls on an empty database
InitStore == HMInit /\ FetchIdle /\ StoreIdle /\ ValidateIdle /\ MainIdle /\ RestIdle

NextStore == update_product

SpecStore == InitStore /\ [][NextStore]_vars

\* run_scraper.main from the resolved identifiers to its end
InitMain == HMInit /\ FetchIdle /\ StoreIdle /\ ValidateIdle /\ MainInit /\ RestIdle

NextMain ==
    \/ MainNoAsins
    \/ MainScrape
    \/ StartItem
    \/ scrape_product
    \/ RetryReturnHtml
    \/ RetryBackoff
    \/ RetryExhausted
    \/ BatchReturn
    \/ MainScrapeReturn
    \/ MainParseSkip
    \/ MainParseItem
    \/ MainValidateBatch
    \/ MainClean
    \/ MainSave

SpecMain == InitMain /\ [][NextMain]_vars

\* a validator applied to one record
InitValidate == HMInit /\ FetchIdle /\ StoreIdle /\ ValidateInit /\ MainIdle /\ RestIdle

NextValidate == ValidateProduct \/ ValidateProductData

SpecValidate == InitValidate /\ [][NextValidate]_vars

\* the identifier checks applied to one identifier text
InitAsin ==
    /\ HMInit /\ FetchIdle /\ StoreIdle /\ MainIdle /\ RestIdle
    /\ record \in AsinRecords
    /\ vresult = << >>
    /\ vwho = "idle"

NextAsin == ValidateAsin \/ ValidateProduct

SpecAsin == InitAsin /\ [][NextAsin]_vars

\* the validators applied to one record, availability and price varying
InitBusiness ==
    /\ HMInit /\ FetchIdle /\ StoreIdle /\ MainIdle /\ RestIdle
    /\ record \in BusinessRecords
    /\ vresult = << >>
    /\ vwho = "idle"

NextBusiness ==
    \/ ValidateProduct
    \/ ValidateProductData
    \/ ValidateProductAvailability
    \/ BusinessValidate

SpecBusiness == InitBusiness /\ [][NextBusiness]_vars

\* a client that sanitizes a record, and the result again, or validates it
InitSanitize ==
    /\ HMInit /\ FetchIdle /\ StoreIdle /\ MainIdle
    /\ record \in SanitizeRecords
    /\ vresult = << >>
    /\ vwho = "idle"
    /\ ObjInit /\ ParseIdle /\ LaterIdle /\ LastIdle

NextSanitize == SanitizeProductData \/ CleanProductData \/ ValidateProductObject

SpecSanitize == InitSanitize /\ [][NextSanitize]_vars

\* extract_availability applied to the status elements of one page
InitAvailability ==
    /\ HMInit /\ FetchIdle /\ StoreIdle /\ ValidateIdle /\ MainIdle /\ ObjIdle /\ LaterIdle /\ LastIdle
    /\ arg \in Soups
    /\ ret = << >>
    /\ called = "idle"

NextAvailability == ExtractAvailability

SpecAvailability == InitAvailability /\ [][NextAvailability]_vars

\* a scraper built from a configuration, used for a batch or for one direct
\* call of scrape_with_retry
InitConfigured ==
    /\ HMInit /\ FetchIdle /\ StoreIdle /\ ValidateIdle /\ MainIdle /\ ObjIdle /\ ParseIdle
    /\ LaterIdle /\ RunIdle
    /\ max_retries \in 1..MaxRetriesOption
    /\ request_delay \in RequestDelays
    /\ via_batch \in BOOLEAN
    /\ IF via_batch
         THEN n_items \in 0..MaxIds /\ retry_max_attempts = BatchMaxAttempts
         ELSE n_items = 1 /\ retry_max_attempts \in 1..MaxAttemptsArg
    /\ item = 1
    /\ retry_attempt = 0
    /\ retry_pc = "batch"
    /\ retry_result = "pending"
    /\ events = << >>

NextConfigured ==
    \/ ConfiguredStartItem
    \/ ConfiguredAttempt
    \/ ConfiguredBackoff
    \/ ConfiguredExhausted
    \/ ConfiguredReturn

SpecConfigured == InitConfigured /\ [][NextConfigured]_vars

\* transform_product_record applied to one raw record
InitTransform ==
    /\ HMInit /\ FetchIdle /\ StoreIdle /\ ValidateIdle /\ MainIdle /\ ObjIdle
    /\ LaterIdle /\ LastIdle
    /\ arg \in RawRecords
    /\ ret = PyNone
    /\ called = "idle"

NextTransform == TransformProductRecord

SpecTransform == InitTransform /\ [][NextTransform]_vars

\* one call of PipelineRunner.run, with or without a connection
InitRun ==
    /\ HMInit /\ FetchIdle /\ StoreIdle /\ ValidateIdle /\ MainIdle /\ ObjIdle /\ ParseIdle
    /\ LaterIdle /\ BackoffIdle
    /\ run_db \in BOOLEAN
    /\ run_raw = -1
    /\ run_transformed = -1
    /\ run_quality = "unset"
    /\ run_phases = << >>
    /\ run_pc = "extract"
    /\ run_ret = "pending"

NextRun == RunExtract \/ RunLoadRaw \/ RunTransform \/ RunQualityChecks \/ RunLoadClean

SpecRun == InitRun /\ [][NextRun]_vars

\* validate_batch applied to one list of records
InitBatch ==
    /\ HMInit /\ FetchIdle /\ StoreIdle /\ ValidateIdle /\ MainIdle /\ ObjIdle
    /\ LaterIdle /\ LastIdle
    /\ arg \in ProductLists
    /\ ret = << << >>, << >> >>
    /\ called = "idle"

NextBatch == ValidateBatch

SpecBatch == InitBatch /\ [][NextBatch]_vars

\* one run of the ASIN finder's main
InitFinder ==
    /\ HMInit /\ FetchIdle /\ StoreIdle /\ ValidateIdle /\ MainIdle /\ ObjIdle /\ ParseIdle
    /\ LoadIdle /\ LastIdle
    /\ request_count = 0
    /\ requests_issued = 0
    /\ category = 1
    /\ term = 1
    /\ search_attempt = 1
    /\ category_count = 0
    /\ category_products = FALSE
    /\ unique_products = 0
    /\ to_validate = 0
    /\ vidx = 1
    /\ blocked = FALSE
    /\ fpc = "category"

NextFinder ==
    \/ FinderNextCategory
    \/ FinderNextTerm
    \/ FinderSearchRequest
    \/ FinderPhase1End
    \/ FinderValidateRequest

SpecFinder == InitFinder /\ [][NextFinder]_vars

\* load_to_raw_table called on one batch
InitLoad ==
    /\ HMInit /\ FetchIdle /\ StoreIdle /\ ValidateIdle /\ MainIdle /\ ObjIdle /\ ParseIdle
    /\ FinderIdle /\ LastIdle
    /\ raw_data \in Batches
    /\ lpos = 0
    /\ records_inserted = 0
    /\ stamped = {}
    /\ executed = << >>
    /\ lstate = "idle"
    /\ lret = 0

NextLoad == LoadStart \/ LoadRecord \/ LoadReturn

SpecLoad == InitLoad /\ [][NextLoad]_vars

\* the price parsers applied to one price text
InitPrice ==
    /\ HMInit /\ FetchIdle /\ StoreIdle /\ ValidateIdle /\ MainIdle /\ ObjIdle /\ LaterIdle /\ LastIdle
    /\ arg \in PriceTexts
    /\ ret = PyNone
    /\ called = "idle"

NextPrice == ExtractFloatFromText \/ ParsePrice

SpecPrice == InitPrice /\ [][NextPrice]_vars

(***************************************************************************)
(* Properties of the fetcher and the HeaderManager                         *)
(***************************************************************************)
\* scrape_with_retry has just returned for the item at position idx - 1
ItemReturned == pc \in {"batch", "done"} /\ idx > 1

LastPos == idx - 1

LastResult == results[product_ids[LastPos]]

\* C1: two consecutive HTTP requests of a batch fetch never carry the
\* headers of the same browser profile (the claim as stated).
C1_ConsecutiveRequestsDiffer ==
    prevHeaders # NoHeaders => prevHeaders # lastHeaders

\* C2: with rotate_user_agent never called, the k-th get_headers call returns
\* the headers of profile (k-1) mod N and leaves the cursor at k mod N.
C2_RoundRobin ==
    (rotateCalls = 0 /\ getCalls >= 1) =>
        /\ lastHeaders = HeadersOf(Profiles[((getCalls - 1) % NumProfiles) + 1])
        /\ current_profile_index = getCalls % NumProfiles

\* C2 witness: five calls without a rotation, so the cursor has wrapped round
C2_Witness == rotateCalls = 0 /\ getCalls = 5 /\ current_profile_index = 2

\* C3: a retried fetch makes at most max_attempts attempts, stops at the
\* first attempt that succeeds (scrape_product returned a body, not None) and
\* returns that body, and returns None exactly when every attempt failed
\* (the claim as stated).
C3_StopsAtFirstSuccess ==
    ItemReturned =>
        /\ tried[LastPos] <= BatchMaxAttempts
        /\ (okSeen > 0 => (okSeen = 1 /\ html # None /\ LastResult = firstOk))
        /\ (LastResult = None <=> (okSeen = 0 /\ tried[LastPos] = BatchMaxAttempts))

\* some bot-defense marker occurs in text, letter case ignored
ContainsMarkerIgnoringCase(text) ==
    \E m \in bot_indicators :
        \E k \in 0..(Len(text) - Len(m)) :
            \A j \in 1..Len(m) : Lower(<<text[k + j]>>) = Lower(<<m[j]>>)

C5_CursorMoved ==
    (ItemReturned /\ allCaptcha) =>
        (LastResult = None /\ current_profile_index # cursor0)

\* C6: the batch fetch attempts every identifier and returns an entry (a
\* body or None) for every supplied identifier, whatever failed before it.
C6_EveryIdAttempted ==
    pc = "done" =>
        /\ DOMAIN results = {product_ids[i] : i \in 1..Len(product_ids)}
        /\ \A i \in 1..Len(product_ids) : tried[i] >= 1
        /\ \A k \in DOMAIN results :
              results[k] = None \/ results[k] \in {r.text : r \in Responses}

\* C6 witness: the first identifier failed and the second was still attempted
C6_Witness ==
    /\ pc = "done"
    /\ Len(product_ids) >= 2
    /\ product_ids[1] # product_ids[2]
    /\ results[product_ids[1]] = None
    /\ tried[2] >= 1

(***************************************************************************)
(* Properties of update_product                                            *)
(***************************************************************************)
\* the calls that carried a price, in call order
PricedUpserts == SelectSeq(upserts, LAMBDA u : u.price # PyNone /\ u.price # Missing)

C9_LatestWriteWins ==
    /\ {products[i].product_id : i \in 1..Len(products)} = DOMAIN latest
    /\ Len(products) = Cardinality(DOMAIN latest)
    /\ \A i \in 1..Len(products) :
         LET d == latest[products[i].product_id]
         IN /\ products[i].title = Get(d.title)
            /\ products[i].current_price = Get(d.price)
            /\ products[i].availability = GetOr(d.availability, Str(Unknown))
            /\ products[i].rating = Get(d.rating)
            /\ products[i].seller = Get(d.seller)
            /\ products[i].url = Get(d.url)

Stages == <<"fetch", "parse", "validate", "sanitize", "persist">>
StageRank(stage) == CHOOSE k \in 1..Len(Stages) : Stages[k] = stage

ReportedFields == {vresult[i].field : i \in 1..Len(vresult)}

IdentifierOk(v) ==
    /\ v.t = "str"
    /\ Len(Strip(v.s)) = 10
    /\ \A i \in 1..Len(Strip(v.s)) : Strip(v.s)[i] \in UpperChars \cup DigitChars
PriceOk(v) == FloatOk(v) /\ FloatVal(v) > 0
TitleOk(v) == v.t = "str" /\ Len(Strip(v.s)) >= 3
RatingOk(v) == FloatOk(v) /\ 0 <= FloatVal(v) /\ FloatVal(v) <= 500
ReviewCountOk(v) == v.t = "num" /\ v.n >= 0

\* the field rules a record violates, on the keys validate_product reads
ViolatedScraperRules ==
    {f \in {"asin", "price", "title", "rating"} :
        \/ f = "asin" /\ ~IdentifierOk(Get(record.product_id))
        \/ f = "price" /\ Get(record.price) # PyNone /\ ~PriceOk(record.price)
        \/ f = "title" /\ ~TitleOk(Get(record.title))
        \/ f = "rating" /\ Get(record.rating) # PyNone /\ ~RatingOk(record.rating)}

\* the field rules a record violates on the keys it carries, as
\* validate_product_data reads them
ViolatedParserRules ==
    {f \in {"asin", "url", "price", "title", "rating", "review_count", "timestamp"} :
        \/ f = "asin" /\ ~IdentifierOk(Get(record.asin))
        \/ f = "url" /\ ~(Get(record.url).t = "str" /\ UrlRegexMatch(Get(record.url).s))
        \/ f = "price" /\ Has(record.current_price) /\ ~PriceOk(record.current_price)
        \/ f = "title" /\ Has(record.title) /\ ~TitleOk(record.title)
        \/ f = "rating" /\ Get(record.rating) # PyNone /\ ~RatingOk(record.rating)
        \/ f = "review_count" /\ Get(record.review_count) # PyNone
                              /\ ~ReviewCountOk(record.review_count)
        \/ f = "timestamp" /\ ~(Get(record.timestamp).t = "str"
                                 /\ FromIsoFormatOk(ReplaceZ(Get(record.timestamp).s)))}

LowerChars == {LowerLetters[i] : i \in 1..Len(LowerLetters)}

\* exactly 10 alphanumeric characters, not all digits and not all letters
TenAlnumMixed(s) ==
    /\ Len(s) = 10
    /\ \A i \in 1..Len(s) : s[i] \in UpperChars \cup LowerChars \cup DigitChars
    /\ \E i \in 1..Len(s) : s[i] \notin DigitChars
    /\ \E i \in 1..Len(s) : s[i] \in DigitChars

\* C11: identifier validation passes for exactly the strings of 10
\* alphanumeric characters that are neither all digits nor all letters
C11_IdentifierRule ==
    /\ vwho = "validate_asin" => (vresult = << >> <=> TenAlnumMixed(record.asin.s))
    /\ (vwho = "validate_product" /\ record \in AsinRecords) =>
          (vresult = << >> <=> TenAlnumMixed(record.product_id.s))

PriceAbsent == Get(record.price) = PyNone

\* C12: a record that is in stock or available and has no price (and is valid
\* otherwise) is invalid, with a reason saying that an in-stock item is
\* missing its price
C12_InStockNeedsPrice ==
    (/\ vwho \in {"validate_product", "validate_product_availability"}
     /\ Get(record.availability) \in {Str(InStock), Str(Available)}
     /\ record.title = Str(GoodTitle)
     /\ PriceAbsent)
        => \E i \in 1..Len(vresult) : vresult[i].field = "availability"

\* the fields other than price are valid for the validator that ran
OtherFieldsValid ==
    /\ record.title = Str(GoodTitle)
    /\ vwho = "validate_product_data" => record.timestamp = Str(GoodTimestamp)
    /\ vwho = "BusinessValidationAdapter" => record.timestamp = Num(FreshTimestamp)

\* C13: a record that is out of stock or unavailable, valid in its other
\* fields and without a price is accepted
C13_OutOfStockNeedsNoPrice ==
    (/\ vwho \in {"validate_product", "validate_product_data", "BusinessValidationAdapter"}
     /\ Get(record.availability) \in {Str(OutOfStock), Str(Unavailable)}
     /\ OtherFieldsValid
     /\ PriceAbsent)
        => vresult = << >>

\* C14: sanitizing a sanitized record changes nothing, field by field
C14_SanitizeIdempotent ==
    Len(rets) >= 2 => heap[rets[2]] = heap[rets[1]]

\* C15: validate and sanitize leave the record they are given as it was, and
\* sanitize returns an object other than its argument
C15_InputUntouched ==
    /\ heap # << >> => heap[1] = record
    /\ \A i \in 1..Len(rets) :
          /\ rets[i] # (IF i = 1 THEN 1 ELSE rets[i - 1])
          /\ heap[rets[i]] = (IF vwho = "clean_product_data"
                              THEN clean_product_data(heap[IF i = 1 THEN 1 ELSE rets[i - 1]])
                              ELSE SanitizedFields(heap[IF i = 1 THEN 1 ELSE rets[i - 1]]))

\* sanitize has returned a record that differs from the one it was given
C15_Witness ==
    /\ Len(rets) = 1
    /\ heap[rets[1]] # heap[1]
    /\ heap[1] = record

(***************************************************************************)
(* Further properties of the fetcher                                       *)
(***************************************************************************)
\* a response with a 2xx status whose body holds no bot-defense marker
Clean2xx(r) ==
    /\ ~r.exception
    /\ r.status_code \in 200..299
    /\ ~ContainsMarkerIgnoringCase(r.text)

\* C16: an attempt yields the body exactly when the response is 2xx and
\* clean, and a clean 2xx response ends the retry loop (the loop goes on
\* only after a falsy result)
C16_Clean2xxIsSuccess ==
    pc = "returned" =>
        /\ html # None <=> Clean2xx(resp)
        /\ Clean2xx(resp) => (html = resp.text /\ Truthy(html))

(***************************************************************************)
(* Properties of the parser                                                *)
(***************************************************************************)
UnavailableText == <<"u", "n", "a", "v", "a", "i", "l", "a", "b", "l", "e">>

\* the class of one status text: "out of stock" or "unavailable" gives
\* out_of_stock, otherwise "in stock" gives in_stock, otherwise none
StatusClass(text) ==
    IF Contains(text, AvailabilityOutOfStock) \/ Contains(text, UnavailableText)
      THEN OutOfStock
    ELSE IF Contains(text, AvailabilityInStock) THEN InStock
    ELSE None

\* C17: the availability is the class of the first status element whose text
\* has one, and unknown when none has; "currently unavailable" is out_of_stock
C17_AvailabilityClassification ==
    called = "extract_availability" =>
        LET text(i) == Lower(Strip(arg[i].s))
            hits == {i \in 1..Len(arg) : arg[i] # PyNone /\ StatusClass(text(i)) # None}
        IN ret = IF hits = {} THEN Unknown
                 ELSE StatusClass(text(CHOOSE i \in hits : \A j \in hits : i <= j))

\* C18: price parsing returns a number or None and never raises; a text
\* without a digit gives None, and a currency symbol followed by 1,234.56
\* gives 1234.56
C18_PriceParsingTotal ==
    called \in {"extract_float_from_text", "parse_price"} =>
        /\ ret.t \in {"num", "none"}
        /\ (\A i \in 1..Len(arg) : arg[i] \notin DigitChars) => ret = PyNone
        /\ arg = <<"$", "1", ",", "2", "3", "4", ".", "5", "6">> => ret = Num(123456)

(***************************************************************************)
(* Properties of the loader                                                *)
(***************************************************************************)
\* C19: when load_to_raw_table has returned, the insert of every record of
\* the batch was attempted, in the order of the batch, whatever the earlier
\* inserts did, and the returned count is the number of inserts that succeeded
C19_EveryRecordAttempted ==
    lstate = "returned" =>
        /\ Len(executed) = Len(raw_data)
        /\ \A i \in 1..Len(raw_data) : executed[i].id = raw_data[i]
        /\ lret = Succeeded(executed)

(***************************************************************************)
(* Properties of the ASIN finder                                           *)
(***************************************************************************)
\* C20: in every state of a run of the finder, the requests issued so far and
\* the request counter are at most max_requests
C20_RequestBudget ==
    /\ requests_issued <= max_requests
    /\ request_count <= max_requests

\* C21: once a response has signalled blocking (503, 429 or a page with a
\* bot-detection phrase), no step of the run issues another request
C21_NoRequestAfterBlocking ==
    [][blocked => requests_issued' = requests_issued]_vars

(***************************************************************************)
(* Properties of the configured scraper                                    *)
(***************************************************************************)
Sleeps == SelectSeq(events, LAMBDA x : x.e = "sleep")
Rotations == SelectSeq(events, LAMBDA x : x.e = "rotate")
Attempts == SelectSeq(events, LAMBDA x : x.e = "attempt")

C23_AttemptsWithinMaxRetries ==
    via_batch => Len(Attempts) <= max_retries

(***************************************************************************)
(* Properties of the sanitizers, continued                                 *)
(***************************************************************************)
\* C24: whichever sanitizer a record with a numeric rating went through, the
\* rating of the returned record is a number from 0 to 5: 5.0 for a rating
\* above 5, 0.0 for a rating below 0
C24_RatingClamped ==
    \A i \in 1..Len(rets) :
        LET given == heap[1].rating
            got == heap[rets[i]].rating
        IN given.t = "num" =>
              /\ got.t = "num"
              /\ 0 <= got.n /\ got.n <= MaxRating
              /\ given.n > MaxRating => got.n = MaxRating
              /\ given.n < 0 => got.n = 0

\* the title rule: present, a string, and from the minimum to the maximum
\* length once trimmed
TitleWithinBounds(v) ==
    /\ v.t = "str"
    /\ Len(Strip(v.s)) >= title_min_length
    /\ Len(Strip(v.s)) <= MaxTitleLength

TitleRejected == \E i \in 1..Len(vresult) : vresult[i].field = "title"

\* C25: a record the validator accepts has a title within the bounds, and a
\* title within the bounds is never the reason of a rejection
C25_TitleRule ==
    vwho \in {"validate_product", "validate_product_data"} =>
        /\ vresult = << >> => TitleWithinBounds(record.title)
        /\ TitleWithinBounds(record.title) => ~TitleRejected

(***************************************************************************)
(* Properties of the transform step                                        *)
(***************************************************************************)
\* transform_product_record returned a record
Transformed == called = "transform_product_record" /\ "availability" \in DOMAIN ret

\* C26: the availability of a transformed record is in_stock, out_of_stock
\* or unknown, and a raw availability that already is in_stock or
\* out_of_stock is kept
C26_CanonicalAvailability ==
    Transformed =>
        /\ ret.availability \in {InStock, OutOfStock, Unknown}
        /\ arg.availability \in {Str(InStock), Str(OutOfStock)} =>
              ret.availability = arg.availability.s

\* C28: a transformed record has no price or one above 0 and at most 10
\* million, an availability of the enum, and no price when out of stock; a
\* raw record without product_id and asin gives no record
C28_TransformedRecordInvariant ==
    called = "transform_product_record" =>
        /\ Transformed =>
              /\ \/ ret.price = PyNone
                 \/ ret.price.t = "num" /\ 0 < ret.price.n /\ ret.price.n <= TransformMaxPrice
              /\ ret.availability \in {InStock, OutOfStock, Unknown}
              /\ ret.availability = OutOfStock => ret.price = PyNone
        /\ (~Has(arg.product_id) /\ ~Has(arg.asin)) => ret = PyNone

(***************************************************************************)
(* Properties of the HeaderManager, continued                              *)
(***************************************************************************)
\* C27: after any sequence of get_headers and rotate_user_agent calls the
\* cursor is an index of the profile list
C27_CursorInRange ==
    /\ 0 <= current_profile_index
    /\ current_profile_index < NumProfiles

\* get_headers has wrapped the cursor around to 0 after a rotation
C27_Witness ==
    /\ rotateCalls >= 1
    /\ getCalls >= NumProfiles
    /\ current_profile_index = 0
    /\ lastHeaders = HeadersOf(Profiles[NumProfiles])

(***************************************************************************)
(* Properties of the pipeline runner                                       *)
(***************************************************************************)
PhaseRank ==
    [p \in {"extract", "load_raw", "transform", "quality", "load_clean"} |->
        CASE p = "extract" -> 1 [] p = "load_raw" -> 2 [] p = "transform" -> 3
          [] p = "quality" -> 4 [] p = "load_clean" -> 5]

Started(p) == \E i \in 1..Len(run_phases) : run_phases[i] = p

Positions(s, r) == {i \in 1..Len(s) : s[i] = r}

\* part is list s with some entries left out, the others in their order
KeepsOrder(part, s) ==
    \E at \in [1..Len(part) -> 1..Len(s)] :
        /\ \A i \in 1..Len(part) : s[at[i]] = part[i]
        /\ \A i \in 1..Len(part) : \A j \in 1..Len(part) : i < j => at[i] < at[j]

\* C30: every record of the input is in exactly one of the two lists, as
\* often as in the input: in valid when validate_product accepts it, in
\* invalid otherwise; both lists keep the input order and their lengths add
\* up to the input's
C30_BatchPartition ==
    called = "validate_batch" =>
        LET valid == ret[1]
            invalid == ret[2]
        IN /\ Len(valid) + Len(invalid) = Len(arg)
           /\ \A i \in 1..Len(arg) :
                LET p == arg[i]
                    n == Cardinality(Positions(arg, p))
                IN IF validate_product(p) = << >>
                     THEN /\ Cardinality(Positions(valid, p)) = n
                          /\ Positions(invalid, p) = {}
                     ELSE /\ Cardinality(Positions(invalid, p)) = n
                          /\ Positions(valid, p) = {}
           /\ KeepsOrder(valid, arg)
           /\ KeepsOrder(invalid, arg)

\* a list of three records was split into one accepted and two rejected
C30_Witness ==
    /\ called = "validate_batch"
    /\ Len(arg) = MaxProducts
    /\ Len(ret[1]) = 1
    /\ Len(ret[2]) = 2
    /\ ret[2][1] # ret[2][2]

====
